---- MODULE Spec2Model ----
(***************************************************************************)
(* Model of chatagentcore's event-distribution hub (ConnectionManager),    *)
(* the /ws/events endpoint handler that drives it, the stale-connection    *)
(* prune pass, and the configuration manager that supplies the auth token. *)
(*                                                                         *)
(* Everything runs on one asyncio event loop: a coroutine runs atomically  *)
(* from one suspension point (a real network await: accept, receive_json,  *)
(* send_json, close, sleep) to the next.  Each action below is one such    *)
(* atomic stretch.  `await self.disconnect(ws)` never suspends, because    *)
(* disconnect contains no await of its own.                                *)
(***************************************************************************)
EXTENDS Integers, Sequences, FiniteSets, TLC

\* ------------------------------------------------------------------ bounds
NumConns == 2        \* websocket objects that ever connect
MaxTime == 1         \* the clock runs 0..MaxTime
MaxTimeout == 0      \* prune_stale_connections(timeout) is called with 0..MaxTimeout
MaxEdits == 2        \* edits of the configuration document
MaxLoads == 3        \* successful loads of the configuration
MaxCallbacks == 2    \* callbacks registered with on_change
MaxDeadline == 2     \* largest timeout, in ticks, passed to send_and_wait
MaxCalls == 2        \* send_and_wait calls in flight at once
MaxSends == 2        \* successful sends whose returned ids are kept

WS == 1..NumConns
Deadlines == 0..MaxDeadline
Timeouts == 0..MaxTimeout

\* ------------------------------------------------------- program constants
DefaultToken == "your_api_token"
Wildcard == "*"
Tokens == {"t1", "t2", DefaultToken}
SubscribeLists == {<<"messages">>, <<"*">>, <<"messages", "*">>}
BroadcastChannels == {"*", "messages"}

\* A frame as receive_json returns it.  valid = FALSE is a frame whose
\* pydantic model (WSAuthMessage / WSSubscribeMessage) fails to validate.
Frames ==
    {[type |-> "auth", token |-> t, channels |-> <<>>, valid |-> TRUE] : t \in Tokens}
    \cup {[type |-> "auth", token |-> "", channels |-> <<>>, valid |-> FALSE]}
    \cup {[type |-> "ping", token |-> "", channels |-> <<>>, valid |-> TRUE]}
    \cup {[type |-> "subscribe", token |-> "", channels |-> cl, valid |-> TRUE] : cl \in SubscribeLists}
    \cup {[type |-> "subscribe", token |-> "", channels |-> <<>>, valid |-> FALSE]}
    \cup {[type |-> "unknown", token |-> "", channels |-> <<>>, valid |-> TRUE]}

VARIABLES
    hub,        \* the ConnectionManager: connections, subscriptions, valid_tokens
    epc,        \* position of each websocket_events handler
    sock,       \* state of each socket
    now,        \* time.time()
    bc,         \* the broadcast coroutine in flight
    bstart,     \* history: the targets of the broadcast at the instant it began
    attempted,  \* history: connections the broadcast called send_json for
    delivered,  \* history: connections whose websocket.send_json succeeded
    pr,         \* the prune_stale_connections coroutine in flight
    reply,      \* history: the last frame a handler passed to send_json
    life,       \* position of the lifespan startup
    cfg,        \* the ConfigManager: version, loaded snapshot, callbacks
    doc,        \* the configuration document on disk
    watch,      \* the config watch task
    reap,       \* history: what the last prune pass found and removed
    authtok,    \* history: the token each connection was last authenticated with
    cfgop,      \* history: the last configuration operation and its outcome
    live,       \* the AdapterManager's live set: platforms with a loaded adapter
    inst,       \* the adapter instance of each platform and its private thread
    call,       \* the router call in flight
    inbound,    \* history: the last inbound message handed to the handler
    pending,    \* the keys of the router's _pending_messages
    others,     \* the message ids of the other send_and_wait calls in flight
    sent        \* history: recipient and returned id of the successful sends

vars == <<hub, epc, sock, now, bc, bstart, attempted, delivered, pr, reply, life, cfg, doc, watch, reap, authtok, cfgop,
          live, inst, call, inbound, pending, others, sent>>
adapterVars == <<live, inst, call, inbound, pending, others, sent>>
obsVars == <<reap, authtok>>
hubVars == <<hub, epc, sock, now, bc, bstart, attempted, delivered, pr, reply, obsVars>>
bcVars == <<bc, bstart, attempted, delivered>>
cfgVars == <<life, cfg, doc, watch, cfgop>>

\* ------------------------------------------------- python dict, as a map
EmptyMap == [x \in {} |-> x]
MapPut(f, k, v) == [x \in DOMAIN f \cup {k} |-> IF x = k THEN v ELSE f[x]]
MapDel(f, k) == [x \in DOMAIN f \ {k} |-> f[x]]
\* insertion order of the keys: a new key goes last, an existing key keeps its place
KeysPut(keys, k) == IF \E i \in 1..Len(keys) : keys[i] = k THEN keys ELSE Append(keys, k)
KeysDel(keys, k) == SelectSeq(keys, LAMBDA x : x # k)

\* ----------------------------------------------------- ConnectionManager
\* user_id = f"ws_user_{id(websocket)}"
user_id(ws) == <<"ws_user", ws>>

\* ConnectionManager.__init__
NewManager ==
    [connections |-> EmptyMap, conn_keys |-> <<>>,
     subscriptions |-> EmptyMap, sub_keys |-> <<>>,
     valid_tokens |-> {DefaultToken}]

set_valid_tokens(h, tokens) == [h EXCEPT !.valid_tokens = tokens]

\* connect, after `await websocket.accept()` returned
connect(h, ws, t) ==
    [h EXCEPT
        !.connections = MapPut(@, ws, [user_id |-> user_id(ws), authenticated |-> FALSE, last_seen |-> t]),
        !.conn_keys = KeysPut(@, ws),
        !.subscriptions = MapPut(@, user_id(ws), EmptyMap),
        !.sub_keys = KeysPut(@, user_id(ws))]

unsubscribe(h, ws, channel) ==
    IF ws \notin DOMAIN h.connections THEN h
    ELSE LET uid == h.connections[ws].user_id
             chans == IF uid \in DOMAIN h.subscriptions THEN h.subscriptions[uid] ELSE EmptyMap
         IN  IF channel \in DOMAIN chans
             THEN LET rest == chans[channel] \ {ws}
                  IN  [h EXCEPT !.subscriptions[uid] =
                          IF rest = {} THEN MapDel(chans, channel) ELSE MapPut(chans, channel, rest)]
             ELSE h

RECURSIVE unsubscribe_all(_, _, _)
\* the loop `for channel in list(self._subscriptions[user_id].keys())` of disconnect
unsubscribe_all(h, ws, channels) ==
    IF channels = {} THEN h
    ELSE LET c == CHOOSE x \in channels : TRUE
         IN  unsubscribe_all(unsubscribe(h, ws, c), ws, channels \ {c})

\* a disconnect that forgets the subscription entry
disconnect_keep_subs(h, ws) ==
    IF ws \notin DOMAIN h.connections THEN h
    ELSE [h EXCEPT !.connections = MapDel(@, ws), !.conn_keys = KeysDel(@, ws)]

\* a disconnect that removes the subscriptions but not the connection record
disconnect_keep_record(h, ws) ==
    IF ws \notin DOMAIN h.connections THEN h
    ELSE LET uid == h.connections[ws].user_id
         IN  [h EXCEPT !.subscriptions = MapDel(@, uid), !.sub_keys = KeysDel(@, uid)]

disconnect(h, ws) ==
    IF ws \notin DOMAIN h.connections THEN h
    ELSE LET uid == h.connections[ws].user_id
             h1 == IF uid \in DOMAIN h.subscriptions
                   THEN LET h0 == unsubscribe_all(h, ws, DOMAIN h.subscriptions[uid])
                        IN  [h0 EXCEPT !.subscriptions = MapDel(@, uid),
                                       !.sub_keys = KeysDel(@, uid)]
                   ELSE h
         IN  [h1 EXCEPT !.connections = MapDel(@, ws), !.conn_keys = KeysDel(@, ws)]

\* an update_last_seen that refreshes nothing
update_last_seen_never(h, ws, t) == h

update_last_seen(h, ws, t) ==
    IF ws \in DOMAIN h.connections THEN [h EXCEPT !.connections[ws].last_seen = t] ELSE h

\* subscribe; self._subscriptions[user_id] of a registered connection exists
\* (a missing entry would be a KeyError; it leaves the maps as they are)
subscribe(h, ws, channel) ==
    IF ws \notin DOMAIN h.connections THEN h
    ELSE LET uid == h.connections[ws].user_id
         IN  IF uid \notin DOMAIN h.subscriptions THEN h
             ELSE LET chans == h.subscriptions[uid]
                      old == IF channel \in DOMAIN chans THEN chans[channel] ELSE {}
                  IN  [h EXCEPT !.subscriptions[uid] = MapPut(chans, channel, old \cup {ws})]

\* an is_authenticated that answers for registration instead of the flag
is_authenticated_any(h, ws) == ws \in DOMAIN h.connections

is_authenticated(h, ws) ==
    IF ws \in DOMAIN h.connections THEN h.connections[ws].authenticated ELSE FALSE

set_authenticated(h, ws, authenticated) ==
    IF ws \in DOMAIN h.connections
    THEN [h EXCEPT !.connections[ws].authenticated = authenticated]
    ELSE h

validate_token(h, token) == token \in h.valid_tokens

\* websocket.send_json raises exactly when the socket is no longer open
SendRaises(sk, ws) == sk[ws] # "open"

\* a send_json that swallows the error but leaves the dead connection registered
send_json_no_heal(h, sk, ws) ==
    [hub |-> h, delivered |-> ~SendRaises(sk, ws), raised |-> FALSE]

\* send_json: the except clause swallows the error and disconnects
send_json(h, sk, ws) ==
    IF SendRaises(sk, ws)
    THEN [hub |-> disconnect(h, ws), delivered |-> FALSE, raised |-> FALSE]
    ELSE [hub |-> h, delivered |-> TRUE, raised |-> FALSE]

\* ------------------------------------------------ server -> client frames
AuthAck(uid) == [type |-> "auth_ack", channel |-> "system", status |-> "authenticated", user_id |-> uid, error |-> "", code |-> 0]
AuthError == [type |-> "error", channel |-> "system", status |-> "", user_id |-> <<>>, error |-> "Invalid token", code |-> 401]
Subscribed == [type |-> "event", channel |-> "system", status |-> "subscribed", user_id |-> <<>>, error |-> "", code |-> 0]
Pong == [type |-> "pong", channel |-> "system", status |-> "", user_id |-> <<>>, error |-> "", code |-> 0]
NoFrame == [type |-> "none", channel |-> "", status |-> "", user_id |-> <<>>, error |-> "", code |-> 0]

\* get_connection_id: None for a connection that is not registered
get_connection_id(h, ws) ==
    IF ws \in DOMAIN h.connections THEN h.connections[ws].user_id ELSE <<>>

\* a handle_auth that closes the connection on a bad token
handle_auth_strict(h, sk, ws, token) ==
    IF validate_token(h, token)
    THEN LET h1 == set_authenticated(h, ws, TRUE)
             r == send_json(h1, sk, ws)
         IN  [hub |-> r.hub, frame |-> AuthAck(get_connection_id(h1, ws)), delivered |-> r.delivered, result |-> TRUE]
    ELSE [hub |-> disconnect(h, ws), frame |-> AuthError, delivered |-> FALSE, result |-> FALSE]

\* a handle_auth that resets the flag on a bad token
handle_auth_reset(h, sk, ws, token) ==
    IF validate_token(h, token)
    THEN LET h1 == set_authenticated(h, ws, TRUE)
             r == send_json(h1, sk, ws)
         IN  [hub |-> r.hub, frame |-> AuthAck(get_connection_id(h1, ws)), delivered |-> r.delivered, result |-> TRUE]
    ELSE LET r == send_json(set_authenticated(h, ws, FALSE), sk, ws)
         IN  [hub |-> r.hub, frame |-> AuthError, delivered |-> r.delivered, result |-> FALSE]

handle_auth(h, sk, ws, token) ==
    IF validate_token(h, token)
    THEN LET h1 == set_authenticated(h, ws, TRUE)
             r == send_json(h1, sk, ws)
         IN  [hub |-> r.hub, frame |-> AuthAck(get_connection_id(h1, ws)), delivered |-> r.delivered, result |-> TRUE]
    ELSE LET r == send_json(h, sk, ws)
         IN  [hub |-> r.hub, frame |-> AuthError, delivered |-> r.delivered, result |-> FALSE]

RECURSIVE subscribe_each(_, _, _)
\* the loop `for channel in message.channels` of handle_subscribe
subscribe_each(h, ws, channels) ==
    IF channels = <<>> THEN h
    ELSE subscribe_each(subscribe(h, ws, Head(channels)), ws, Tail(channels))

handle_subscribe(h, sk, ws, channels) ==
    LET r == send_json(subscribe_each(h, ws, channels), sk, ws)
    IN  [hub |-> r.hub, frame |-> Subscribed, delivered |-> r.delivered]

\* the connections broadcast(data, channel) would deliver to, were it to run now
Targets(h, channel) ==
    IF channel = Wildcard THEN DOMAIN h.connections
    ELSE UNION {h.subscriptions[u][channel] :
                    u \in {x \in DOMAIN h.subscriptions : channel \in DOMAIN h.subscriptions[x]}}

RECURSIVE count_subscribers(_, _, _)
\* the loop of get_subscribers_count over self._subscriptions.items(): a user
\* with the channel adds len(channels[channel]); one without it but with "*"
\* adds len(channels["*"])
count_subscribers(h, users, channel) ==
    IF users = {} THEN 0
    ELSE LET u == CHOOSE x \in users : TRUE
             channels == h.subscriptions[u]
             add == IF channel \in DOMAIN channels THEN Cardinality(channels[channel])
                    ELSE IF Wildcard \in DOMAIN channels THEN Cardinality(channels[Wildcard])
                    ELSE 0
         IN  add + count_subscribers(h, users \ {u}, channel)

get_subscribers_count(h, channel) == count_subscribers(h, DOMAIN h.subscriptions, channel)

\* ------------------------------------------------------- ConfigManager
\* A configuration document as it is on disk: whether the file is there and
\* parses as YAML, and, for the keys the validators look at, the value given
\* or Absent when the key is left out.  token is auth.token (auth.type left at
\* its default "fixed_token"); enabled and app_id are those of one platform.
Absent == "<absent>"
Document(token, enabled, app_id) ==
    [file |-> "ok", token |-> token, enabled |-> enabled, app_id |-> app_id]
Malformed == [file |-> "malformed", token |-> Absent, enabled |-> Absent, app_id |-> Absent]
Missing == [file |-> "missing", token |-> Absent, enabled |-> Absent, app_id |-> Absent]
EmptyRaw == Document(Absent, Absent, Absent)

\* every document over the keys modelled
Documents ==
    {Document(t, e, a) : t \in {Absent, "", "t1", "t2"},
                         e \in {Absent, "false", "true"},
                         a \in {Absent, "", "app"}}
    \cup {Malformed, Missing}

\* the documents the file is rewritten with while the program runs
Contents ==
    {Document("t1", Absent, Absent), Document("t2", Absent, Absent),
     Document(Absent, Absent, Absent), Document("", Absent, Absent), Malformed, Missing}

\* Settings(): every field at its default
DefaultSettings == [token |-> "", enabled |-> FALSE, app_id |-> ""]

\* the field validators of AuthConfig and of the platform models: they run on
\* a value that is given, never on a default
ValidateRaises(raw) ==
    \/ raw.token = ""
    \/ raw.enabled = "true" /\ raw.app_id = ""

\* Settings.model_validate(raw), for a raw document it accepts
model_validate(raw) ==
    [token |-> IF raw.token = Absent THEN "" ELSE raw.token,
     enabled |-> raw.enabled = "true",
     app_id |-> IF raw.app_id = Absent THEN "" ELSE raw.app_id]

\* Settings.model_dump(): every field written out, defaults included
model_dump(config) ==
    Document(config.token, IF config.enabled THEN "true" ELSE "false", config.app_id)

\* load() raises: yaml.safe_load on a file that does not parse, or
\* model_validate on one that does not validate; a missing file is not an error
LoadRaises(content) ==
    \/ content.file = "malformed"
    \/ content.file = "ok" /\ ValidateRaises(content)
AuthToken(content) ==
    IF content.file = "missing" THEN DefaultSettings.token ELSE model_validate(content).token

\* ConfigManager.__init__; token "unloaded" stands for _config = None
NewConfigManager ==
    [version |-> 0, token |-> "unloaded", enabled |-> FALSE, app_id |-> "",
     raw |-> EmptyRaw, callbacks |-> <<>>]

\* self._config, as a Settings value
Snapshot(c) == [token |-> c.token, enabled |-> c.enabled, app_id |-> c.app_id]

\* a load that stores the new configuration before it has validated
load_partial(c, content) ==
    CASE content.file = "missing" ->
            [c EXCEPT !.token = "", !.enabled = FALSE, !.app_id = "", !.raw = EmptyRaw]
      [] content.file = "malformed" -> c
      [] OTHER ->
            [c EXCEPT !.raw = content,
                      !.token = model_validate(content).token,
                      !.enabled = model_validate(content).enabled,
                      !.app_id = model_validate(content).app_id,
                      !.version = IF ValidateRaises(content) THEN @ ELSE @ + 1]

\* load: the ConfigManager as load() leaves it, whether it returns or raises
load(c, content) ==
    CASE content.file = "missing" ->
            [c EXCEPT !.token = DefaultSettings.token, !.enabled = DefaultSettings.enabled,
                      !.app_id = DefaultSettings.app_id, !.raw = EmptyRaw]
      [] content.file = "malformed" -> c
      [] content.file = "ok" /\ ValidateRaises(content) -> [c EXCEPT !.raw = content]
      [] OTHER ->
            [c EXCEPT !.raw = content,
                      !.token = model_validate(content).token,
                      !.enabled = model_validate(content).enabled,
                      !.app_id = model_validate(content).app_id,
                      !.version = @ + 1]

\* on_change
on_change(c, callback) == [c EXCEPT !.callbacks = Append(@, callback)]

\* to_dict
to_dict(c) == IF c.token = "unloaded" THEN EmptyRaw ELSE model_dump(Snapshot(c))

\* the callbacks a client registers: one pushes the new token into the hub,
\* one raises, one only takes note
CallbackIds == {"sync_tokens", "raises", "notes"}

RECURSIVE run_callbacks_abort(_, _, _)
\* a callback loop that a raising callback ends
run_callbacks_abort(h, c, cbs) ==
    IF cbs = <<>> THEN [hub |-> h, calls |-> <<>>]
    ELSE LET entry == [callback |-> Head(cbs), config |-> Snapshot(c)]
             h1 == IF Head(cbs) = "sync_tokens" THEN set_valid_tokens(h, {c.token}) ELSE h
             r == run_callbacks_abort(h1, c, Tail(cbs))
         IN  IF Head(cbs) = "raises" THEN [hub |-> h, calls |-> <<entry>>]
             ELSE [hub |-> r.hub, calls |-> <<entry>> \o r.calls]

RECURSIVE run_callbacks(_, _, _)
\* the loop `for callback in self._callbacks` of reload: each callback is
\* called with self._config, and what it raises is logged and dropped
run_callbacks(h, c, cbs) ==
    IF cbs = <<>> THEN [hub |-> h, calls |-> <<>>]
    ELSE LET entry == [callback |-> Head(cbs), config |-> Snapshot(c)]
             h1 == IF Head(cbs) = "sync_tokens" THEN set_valid_tokens(h, {c.token}) ELSE h
             r == run_callbacks(h1, c, Tail(cbs))
         IN  [hub |-> r.hub, calls |-> <<entry>> \o r.calls]

\* a reload that notifies the callbacks even when its load has raised
reload_notify_always(c, h, content) ==
    LET c1 == load(c, content)
        r == run_callbacks(h, c1, c1.callbacks)
    IN  [cfg |-> c1, hub |-> r.hub, calls |-> r.calls, raised |-> LoadRaises(content)]

\* reload: what load() raises leaves reload() before the callback loop
reload(c, h, content) ==
    LET c1 == load(c, content)
        r == run_callbacks(h, c1, c1.callbacks)
    IN  IF LoadRaises(content)
        THEN [cfg |-> c1, hub |-> h, calls |-> <<>>, raised |-> TRUE]
        ELSE [cfg |-> c1, hub |-> r.hub, calls |-> r.calls, raised |-> FALSE]

\* no configuration operation has run
NoOp == [op |-> "none", raised |-> FALSE, calls |-> <<>>, mtime |-> -1, failed |-> FALSE]

\* ------------------------------------------------------------ adapters
Platforms == {"feishu", "wecom", "dingtalk", "qq"}

\* the constructors lifespan registers
Registered == {"feishu", "dingtalk", "qq"}

\* what the configuration holds for a platform: not enabled; or enabled with
\* credentials that are absent ("empty"), that the platform rejects ("bad") or
\* accepts ("good"); or enabled while the platform's SDK is not installed
PlatformSettings(p) ==
    CASE p = "qq" -> {"disabled", "empty", "bad", "good"}
      [] p = "dingtalk" -> {"disabled", "bad", "good", "no_sdk"}
      [] OTHER -> {"disabled", "good"}

Configs ==
    {c \in [Platforms -> {"disabled", "empty", "bad", "good", "no_sdk"}] :
        \A p \in Platforms : c[p] \in PlatformSettings(p)}

\* no adapter has been constructed for the platform
NoInstance ==
    [made |-> FALSE, creds |-> "none", client |-> FALSE, api |-> FALSE, thread |-> "none",
     handler |-> "none", client_handler |-> "none", ws_started |-> FALSE, shut |-> FALSE]

\* the handlers a holder of an adapter installs; "default" is
\* _default_message_handler
Handlers == {"default", "h2"}

\* the adapter constructors: credentials stored, no client, no handler
Construct(p, setting) == [NoInstance EXCEPT !.made = TRUE, !.creds = setting]

\* initialize() of each adapter.  QQ: without app_id or token an error is
\* logged and the call returns; otherwise the client is made, with the
\* adapter's handler of that moment as its message_handler, and its thread
\* started.  DingTalk: ImportError without the SDK; otherwise the client is
\* made and start_ws starts its thread and returns True.  Feishu (webhook
\* mode): the client is made.
initialize(p, a) ==
    CASE p = "qq" ->
            IF a.creds = "empty" THEN [inst |-> a, raised |-> FALSE]
            ELSE [inst |-> [a EXCEPT !.client = TRUE, !.thread = "running",
                                     !.client_handler = a.handler],
                  raised |-> FALSE]
      [] p = "dingtalk" ->
            IF a.creds = "no_sdk" THEN [inst |-> a, raised |-> TRUE]
            ELSE [inst |-> [a EXCEPT !.client = TRUE, !.thread = "running", !.ws_started = TRUE],
                  raised |-> FALSE]
      [] OTHER -> [inst |-> [a EXCEPT !.client = TRUE], raised |-> FALSE]

\* load_all: the platform has a constructor and its initialize() returned
Loaded(configs, p) ==
    /\ configs[p] # "disabled"
    /\ p \in Registered
    /\ ~initialize(p, Construct(p, configs[p])).raised

\* load_all(configs): every enabled platform is constructed and initialized; a
\* platform without constructor or whose initialize() raised is left out
load_all(configs) ==
    [live |-> {p \in Platforms : Loaded(configs, p)},
     inst |-> [p \in Platforms |->
                  IF Loaded(configs, p) THEN initialize(p, Construct(p, configs[p])).inst
                  ELSE NoInstance]]

get_adapter(l, p) == IF p \in l THEN p ELSE "absent"

loaded_platforms_count(l) == Cardinality(l)

\* a set_message_handler that leaves the handler of a client already made
set_message_handler_adapter_only(p, a, handler) == [a EXCEPT !.handler = handler]

\* set_message_handler: the adapter's _message_handler is replaced; QQ also
\* replaces the message_handler of its client, if it has one
set_message_handler(p, a, handler) ==
    IF p = "qq" /\ a.client
    THEN [a EXCEPT !.handler = handler, !.client_handler = handler]
    ELSE [a EXCEPT !.handler = handler]

\* the handler the code that receives a platform's messages reads: QQ's
\* client reads its own message_handler, DingTalk and Feishu the adapter's
message_handler(p, a) == IF p = "qq" THEN a.client_handler ELSE a.handler

\* shutdown() of each adapter.  QQ: nothing is released, the thread is left to
\* die with the process.  DingTalk and Feishu: the client is closed (stop_ws
\* clears its flags, the HTTP client is closed) and dropped.
shutdown(p, a) ==
    IF p = "qq" THEN [a EXCEPT !.shut = TRUE]
    ELSE [a EXCEPT !.client = FALSE, !.ws_started = FALSE, !.shut = TRUE]

\* -------------------------------------------------------------- router
ConversationTypes == {"user", "channel"}

\* no router call has been made
IdleCall ==
    [pc |-> "idle", op |-> "none", platform |-> "none", ct |-> "user", timeout |-> 0,
     elapsed |-> 0, sends |-> 0, bridge |-> "none", result |-> "none", outcome |-> "none",
     id |-> 0]

\* the platform events an adapter receives, by the fields its conversion
\* reads.  QQ: the callback botpy calls (guild, group or private message), the
\* author's id, the group's openid and the guild channel's id.  DingTalk:
\* conversation_type "1" (one-to-one) or "2" (group), the conversation id and
\* the sender's staff id, "" for a sender outside the organisation.  Feishu:
\* the event type, message.chat_type ("p2p" or "group", or left out, or
\* empty), message.chat_id (every chat of the platform has one, "oc_...") and
\* the sender's open_id.
Events(p) ==
    CASE p = "qq" ->
            {[kind |-> k, author |-> a, author_id |-> "u1", group_openid |-> "g1", channel_id |-> "c1"] :
                k \in {"guild", "group", "user"}, a \in {"u1", ""}}
      [] p = "dingtalk" ->
            {[conversation_type |-> t, conversation_id |-> "cid1", sender_staff_id |-> st, sender_id |-> "d1"] :
                t \in {"1", "2"}, st \in {"s1", ""}}
      [] p = "feishu" ->
            {e \in {[event_type |-> et, chat_type |-> t, chat_id |-> c, open_id |-> "ou_1"] :
                        et \in {"im.message.receive_v1", "im.message.group_at_v1"},
                        t \in {Absent, "", "p2p", "group"}, c \in {"oc_1", ""}} :
                e.chat_type \in {"p2p", "group"} => e.chat_id = "oc_1"}
      [] OTHER -> {}

\* the Message an adapter builds: sender and conversation are kept as given
Message(platform, sender_id, conversation_id, conversation_type) ==
    [platform |-> platform, sender |-> [id |-> sender_id],
     conversation |-> [id |-> conversation_id, type |-> conversation_type]]

\* QQBotClient._handle_message(message, conversation_type)
handle_message(e) ==
    LET sender_id == IF e.author # "" THEN e.author ELSE e.author_id
        conversation_id == CASE e.kind = "group" -> e.group_openid
                             [] e.kind = "guild" -> e.channel_id
                             [] e.kind = "user" -> sender_id
                             [] OTHER -> ""
    IN  Message("qq", sender_id, conversation_id, e.kind)

\* DingTalkAdapter._parse_message(ding_msg); `x or y` is y for an empty x
parse_message(e) ==
    LET sender == IF e.sender_staff_id # "" THEN e.sender_staff_id ELSE e.sender_id
        conv_type == IF e.conversation_type = "2" THEN "group" ELSE "user"
        conv_id == IF conv_type = "user" THEN sender ELSE e.conversation_id
    IN  Message("dingtalk", sender, conv_id, conv_type)

\* FeishuAdapter._parse_message_from_event(event_data): chat_type is
\* message.chat_type, "user" when the key is left out, and when it is empty
\* "group" for a chat_id that starts with "oc_" and "user" otherwise
parse_message_from_event(e) ==
    LET got == IF e.chat_type = Absent THEN "user" ELSE e.chat_type
        chat_type == IF got # "" THEN got
                     ELSE IF e.chat_id = "oc_1" THEN "group" ELSE "user"
        final_conv_id == IF chat_type = "user" THEN e.open_id ELSE e.chat_id
    IN  Message("feishu", e.open_id, final_conv_id, chat_type)

\* the conversion of the adapter of platform p
Convert(p, e) ==
    CASE p = "qq" -> handle_message(e)
      [] p = "dingtalk" -> parse_message(e)
      [] OTHER -> parse_message_from_event(e)

\* the handlers called for one platform event.  QQ's _handle_message and
\* DingTalk's _handle_bot_message call the handler they read once;
\* Feishu's handle_webhook creates one _handle_message_event_async task for
\* either event type (its second branch for group_at_v1 is never reached),
\* which calls the adapter's handler once.
Dispatched(p, a, e) ==
    IF message_handler(p, a) = "none" THEN <<>>
    ELSE IF p = "feishu"
         THEN IF e.event_type \in {"im.message.receive_v1", "im.message.group_at_v1"}
              THEN <<message_handler(p, a)>> ELSE <<>>
         ELSE <<message_handler(p, a)>>

NoEvent == [kind |-> "none"]

\* no inbound message has been handled
NoInbound ==
    [platform |-> "none", loop |-> "none", shut |-> FALSE, handlers |-> <<>>,
     event |-> NoEvent, message |-> Message("none", "", "", "user")]

\* send_message of the adapter, up to its first await or to its raise.  QQ:
\* RuntimeError unless client and client.api are set; run_coroutine_threadsafe
\* raises on a closed loop; otherwise _do_send is queued on the client's loop
\* and the call waits for its future.  DingTalk, Feishu: RuntimeError without
\* client, otherwise the call waits for the client's HTTP request.
send_message(p, a) ==
    IF p = "qq"
    THEN IF ~a.client \/ ~a.api THEN [pc |-> "done", bridge |-> "none", outcome |-> "error"]
         ELSE IF a.thread = "ended" THEN [pc |-> "done", bridge |-> "none", outcome |-> "error"]
         ELSE [pc |-> "sending", bridge |-> "queued", outcome |-> "none"]
    ELSE IF ~a.client THEN [pc |-> "done", bridge |-> "none", outcome |-> "error"]
         ELSE [pc |-> "sending", bridge |-> "http", outcome |-> "none"]

\* a router that hands the message to the platform's adapter, loaded or not
route_outgoing_unchecked(l, i, p) ==
    LET r == send_message(p, i[p])
    IN  [pc |-> r.pc, bridge |-> r.bridge, outcome |-> r.outcome, sends |-> 1]

\* route_outgoing up to its first suspension: ValueError when get_adapter finds
\* no adapter, else the adapter's send_message is awaited
route_outgoing(l, i, p) ==
    IF get_adapter(l, p) = "absent"
    THEN [pc |-> "done", bridge |-> "none", outcome |-> "not_loaded", sends |-> 0]
    ELSE LET r == send_message(p, i[p])
         IN  [pc |-> r.pc, bridge |-> r.bridge, outcome |-> r.outcome, sends |-> 1]

\* a deadline that never passes
ExpiredNever(c) == FALSE

\* the deadline of wait_for has passed
Expired(c) == c.op = "send_and_wait" /\ c.elapsed >= c.timeout

\* send_and_wait up to its first suspension: asyncio.wait_for with a timeout
\* that is not positive cancels route_outgoing before it has run and raises
\* TimeoutError; otherwise route_outgoing runs under the deadline
send_and_wait(l, i, p, timeout) ==
    IF timeout <= 0
    THEN [pc |-> "done", bridge |-> "none", outcome |-> "timeout", sends |-> 0]
    ELSE route_outgoing(l, i, p)

\* create_message_id: a uuid4, an id that no call in flight holds
create_message_id(keys) == CHOOSE i \in 1..(MaxCalls + 1) : i \notin keys /\ \A j \in 1..(i - 1) : j \in keys

\* a send_and_wait that leaves its id in the map when it ends
pop_skipped(keys, op, id) == keys

\* the `finally` of send_and_wait: self._pending_messages.pop(message_id, None);
\* route_outgoing called on its own has no id in the map
pop(keys, op, id) == IF op = "send_and_wait" THEN keys \ {id} ELSE keys

\* the id send_message returns for a message the platform accepted, sent to
\* recipient `to` at time t as the platform's message number serial.  QQ: the
\* id of the API response.  DingTalk: f"ding_{int(time.time())}".  Feishu: `to`.
sent_id(p, to, t, serial) ==
    CASE p = "qq" -> <<"qq", serial>>
      [] p = "dingtalk" -> <<"ding_", t>>
      [] OTHER -> to

Recipients == {"ou_1", "ou_2"}

\* the value _do_send returns on the client's loop: "" for a conversation type
\* it has no branch for and for an API call that raised, else the id of the
\* response
do_send(ct, ok) == IF ct \in {"user", "group", "guild"} /\ ok THEN "id" ELSE "empty"

\* no broadcast in flight
IdleBroadcast ==
    [pc |-> "idle", channel |-> "", target |-> 0, queue |-> <<>>, inner |-> <<>>,
     sent_count |-> 0, disconnected |-> <<>>]

\* no prune pass has run
NoReap == [scan |-> {}, removed |-> {}, at |-> 0, timeout |-> 0]

\* ------------------------------------------------------------------ Init
Init ==
    /\ hub = NewManager
    /\ epc = [w \in WS |-> "init"]
    /\ sock = [w \in WS |-> "open"]
    /\ now = 0
    /\ bc = IdleBroadcast
    /\ bstart = {}
    /\ attempted = {}
    /\ delivered = {}
    /\ pr = [pc |-> "idle", stale |-> <<>>, count |-> 0]
    /\ reply = [to |-> 0, frame |-> NoFrame, delivered |-> FALSE]
    /\ reap = NoReap
    /\ authtok = [w \in WS |-> ""]
    /\ life = "boot"
    /\ cfg = NewConfigManager
    /\ doc = [content |-> Document("t1", Absent, Absent), mtime |-> 0]
    /\ watch = [pc |-> "none", last_mtime |-> 0]
    /\ cfgop = NoOp
    /\ live = {}
    /\ inst = [p \in Platforms |-> NoInstance]
    /\ call = IdleCall
    /\ inbound = NoInbound
    /\ pending = {}
    /\ others = {}
    /\ sent = <<>>

\* ------------------------------------------------------------- lifespan
\* the record of one load() or reload() on document d
Outcome(op, raised, calls, d) ==
    [op |-> op, raised |-> raised, calls |-> calls,
     mtime |-> IF ~raised /\ d.content.file = "ok" THEN d.mtime ELSE cfgop.mtime,
     failed |-> cfgop.failed]

\* lifespan, up to the first await after config_manager.load()
LifespanLoad ==
    /\ life = "boot"
    /\ life' = IF LoadRaises(doc.content) THEN "failed" ELSE "loaded"
    /\ cfg' = load(cfg, doc.content)
    /\ cfgop' = Outcome("load", LoadRaises(doc.content), <<>>, doc)
    /\ UNCHANGED <<hubVars, doc, watch, adapterVars>>

\* lifespan, from config_manager.watch() to the yield
LifespanStart ==
    /\ life = "loaded"
    /\ life' = "running"
    /\ watch' = [pc |-> "new", last_mtime |-> 0]
    /\ hub' = IF cfg.token # "" THEN set_valid_tokens(hub, {cfg.token}) ELSE hub
    /\ UNCHANGED <<epc, sock, now, bc, bstart, attempted, delivered, pr, reply, obsVars, cfg, doc, cfgop, adapterVars>>

\* the token lists a holder of the hub passes to set_valid_tokens
TokenLists == {{"t1"}, {"t2"}}

\* set_valid_tokens called on the running hub
SetValidTokens(tokens) ==
    /\ life = "running"
    /\ hub' = set_valid_tokens(hub, tokens)
    /\ UNCHANGED <<epc, sock, now, bcVars, pr, reply, obsVars, cfgVars, adapterVars>>

\* ------------------------------------------------------ websocket_events
\* the ASGI server closes the socket of a handler that has returned
Returned(sk, w) == IF sk[w] = "open" THEN [sk EXCEPT ![w] = "closed_exit"] ELSE sk

\* websocket_events up to receive_json.  Sockets connect in the order of their
\* numbers (they are interchangeable), so dict insertion order is that order.
Connect(w) ==
    /\ life = "running"
    /\ epc[w] = "init"
    /\ \A v \in WS : v < w => epc[v] # "init"
    /\ IF sock[w] = "open"
       THEN hub' = connect(hub, w, now) /\ epc' = [epc EXCEPT ![w] = "recv"]
       ELSE hub' = hub /\ epc' = [epc EXCEPT ![w] = "done"]
    /\ UNCHANGED <<sock, now, bcVars, pr, reply, obsVars, cfgVars, adapterVars>>

\* the client goes away
ClientDrop(w) ==
    /\ sock[w] = "open"
    /\ epc[w] # "done"
    /\ sock' = [sock EXCEPT ![w] = "peer_gone"]
    /\ UNCHANGED <<hub, epc, now, bcVars, pr, reply, obsVars, cfgVars, adapterVars>>

\* receive_json raises on a socket that is no longer open: finally disconnect
RecvDisconnect(w) ==
    /\ epc[w] = "recv"
    /\ sock[w] # "open"
    /\ hub' = disconnect(hub, w)
    /\ epc' = [epc EXCEPT ![w] = "done"]
    /\ UNCHANGED <<sock, now, bcVars, pr, reply, obsVars, cfgVars, adapterVars>>

\* what the handler passes to send_json for frame f: the frame and whether
\* websocket.send_json delivered it
ReplyTo(h, sk, w, f) ==
    CASE f.type = "auth" /\ f.valid ->
            LET r == handle_auth(h, sk, w, f.token)
            IN  [to |-> w, frame |-> r.frame, delivered |-> r.delivered]
      [] f.type = "ping" ->
            [to |-> w, frame |-> Pong, delivered |-> send_json(h, sk, w).delivered]
      [] f.type = "subscribe" /\ is_authenticated(h, w) /\ f.valid ->
            LET r == handle_subscribe(h, sk, w, f.channels)
            IN  [to |-> w, frame |-> r.frame, delivered |-> r.delivered]
      [] OTHER -> [to |-> w, frame |-> NoFrame, delivered |-> FALSE]

\* one turn of the while loop: a frame arrives and is dispatched.  `drop`: the
\* client goes away before the handler's reply is sent.
Dispatch(w, f, drop) ==
    /\ epc[w] = "recv"
    /\ sock[w] = "open"
    /\ LET h1 == update_last_seen(hub, w, now)
           sk == IF drop THEN [sock EXCEPT ![w] = "peer_gone"] ELSE sock
       IN  CASE f.type = "auth" /\ f.valid ->
                    /\ hub' = handle_auth(h1, sk, w, f.token).hub
                    /\ sock' = sk
                    /\ epc' = epc
              [] f.type = "ping" ->
                    /\ hub' = send_json(h1, sk, w).hub
                    /\ sock' = sk
                    /\ epc' = epc
              [] f.type = "subscribe" /\ ~is_authenticated(h1, w) ->
                    \* suspended at `await websocket.close(code=4008, ...)`
                    /\ hub' = h1
                    /\ sock' = sk
                    /\ epc' = [epc EXCEPT ![w] = "closing"]
              [] f.type = "subscribe" /\ is_authenticated(h1, w) /\ f.valid ->
                    /\ hub' = handle_subscribe(h1, sk, w, f.channels).hub
                    /\ sock' = sk
                    /\ epc' = epc
              [] f.type = "unknown" ->
                    /\ hub' = h1
                    /\ UNCHANGED <<sock, epc>>
              [] OTHER ->
                    \* the frame's model raises: except Exception, finally disconnect
                    /\ hub' = disconnect(h1, w)
                    /\ sock' = Returned(sock, w)
                    /\ epc' = [epc EXCEPT ![w] = "done"]
    /\ UNCHANGED <<now, bcVars, pr, cfgVars, reap, adapterVars>>

RecvFrame(w, f, drop) == Dispatch(w, f, drop) /\ UNCHANGED <<reply, authtok>>

\* the same turn of the loop, with the token recorded that handle_auth accepted
RecvFrameAuth(w, f, drop) ==
    /\ Dispatch(w, f, drop)
    /\ authtok' = [authtok EXCEPT ![w] =
                      IF f.type = "auth" /\ f.valid /\ validate_token(hub, f.token)
                      THEN f.token ELSE @]
    /\ UNCHANGED reply

\* websocket.close(code=4008) completes (or raises, the socket being closed
\* already): return, finally disconnect
CloseReturn(w) ==
    /\ epc[w] = "closing"
    /\ sock' = [sock EXCEPT ![w] = IF @ = "open" THEN "closed_4008" ELSE @]
    /\ hub' = disconnect(hub, w)
    /\ epc' = [epc EXCEPT ![w] = "done"]
    /\ UNCHANGED <<now, bcVars, pr, reply, obsVars, cfgVars, adapterVars>>

\* the same turn of the loop, with the reply frame recorded
RecvFrameReply(w, f, drop) ==
    /\ Dispatch(w, f, drop)
    /\ reply' = ReplyTo(update_last_seen(hub, w, now),
                        IF drop THEN [sock EXCEPT ![w] = "peer_gone"] ELSE sock, w, f)
    /\ UNCHANGED authtok

\* ------------------------------------------------------------ broadcast
\* list(channels[channel]): a set holds at most its owner's socket; any order
RECURSIVE SetToSeq(_)
SetToSeq(S) == IF S = {} THEN <<>> ELSE LET x == CHOOSE y \in S : TRUE IN <<x>> \o SetToSeq(S \ {x})

\* the dict `channels` the snapshot list(self._subscriptions.items()) refers to:
\* the live per-user dict, which disconnect empties key by key
LiveChannels(h, uid) == IF uid \in DOMAIN h.subscriptions THEN h.subscriptions[uid] ELSE EmptyMap

\* a named-channel loop that ignores the channel name
ChannelTargetsAnyChannel(h, uid, channel) ==
    SetToSeq(UNION {LiveChannels(h, uid)[c] : c \in DOMAIN LiveChannels(h, uid)})

\* `if channel in channels: for websocket in list(channels[channel])`
ChannelTargets(h, uid, channel) ==
    IF channel \in DOMAIN LiveChannels(h, uid)
    THEN SetToSeq(LiveChannels(h, uid)[channel])
    ELSE <<>>

RECURSIVE NextTarget(_, _, _, _)
\* the loops of broadcast run from one send to the next: the next socket
\* send_json is called for (0: the loops are over), and what is left to iterate
NextTarget(h, channel, queue, inner) ==
    IF inner # <<>> THEN [target |-> Head(inner), queue |-> queue, inner |-> Tail(inner)]
    ELSE IF queue = <<>> THEN [target |-> 0, queue |-> <<>>, inner |-> <<>>]
    ELSE IF channel = Wildcard THEN [target |-> Head(queue), queue |-> Tail(queue), inner |-> <<>>]
    ELSE NextTarget(h, channel, Tail(queue), ChannelTargets(h, Head(queue), channel))

RECURSIVE disconnect_each(_, _)
\* the loop `for websocket in disconnected: await self.disconnect(websocket)`
disconnect_each(h, wss) ==
    IF wss = <<>> THEN h ELSE disconnect_each(disconnect(h, Head(wss)), Tail(wss))

\* broadcast runs on, from the state b of its locals, to its next send or to
\* its return
BroadcastRun(h, b) ==
    LET n == NextTarget(h, b.channel, b.queue, b.inner)
    IN  IF n.target = 0
        THEN /\ hub' = disconnect_each(h, b.disconnected)
             /\ bc' = [b EXCEPT !.pc = "done", !.target = 0, !.queue = <<>>, !.inner = <<>>]
             /\ attempted' = IF b.pc = "idle" THEN {} ELSE attempted
        ELSE /\ hub' = h
             /\ bc' = [b EXCEPT !.pc = "send", !.target = n.target, !.queue = n.queue, !.inner = n.inner]
             /\ attempted' = (IF b.pc = "idle" THEN {} ELSE attempted) \cup {n.target}

\* a broadcast task starts: the snapshot of the keys is taken and the loops run
\* to the first `await websocket.send_json`
BroadcastBegin(channel) ==
    /\ life = "running"
    /\ bc.pc \in {"idle", "done"}
    /\ BroadcastRun(hub, [pc |-> "idle", channel |-> channel, target |-> 0,
                          queue |-> IF channel = Wildcard THEN hub.conn_keys ELSE hub.sub_keys,
                          inner |-> <<>>, sent_count |-> 0, disconnected |-> <<>>])
    /\ bstart' = Targets(hub, channel)
    /\ delivered' = {}
    /\ UNCHANGED <<epc, sock, now, pr, reply, obsVars, cfgVars, adapterVars>>

\* the send the broadcast is suspended at completes; the loops run to the next
\* send, or to the end, where broadcast returns bc.sent_count
BroadcastResume ==
    /\ bc.pc = "send"
    /\ LET r == send_json(hub, sock, bc.target)
       IN  /\ BroadcastRun(r.hub, [bc EXCEPT
                    !.sent_count = IF r.raised THEN @ ELSE @ + 1,
                    !.disconnected = IF r.raised THEN Append(@, bc.target) ELSE @])
           /\ delivered' = IF r.delivered THEN delivered \cup {bc.target} ELSE delivered
    /\ UNCHANGED <<epc, sock, now, bstart, pr, reply, obsVars, cfgVars, adapterVars>>

\* ----------------------------------------------- prune_stale_connections
Tick ==
    /\ now < MaxTime
    /\ now' = now + 1
    /\ UNCHANGED <<hub, epc, sock, bcVars, pr, reply, obsVars, cfgVars, adapterVars>>

\* a scan that takes every connection for stale
StaleAll(h, t, timeout) == h.conn_keys

\* the list `stale` the first loop builds
Stale(h, t, timeout) ==
    SelectSeq(h.conn_keys, LAMBDA ws : t - h.connections[ws].last_seen > timeout)

\* prune_stale_connections up to its first `await websocket.close`; with
\* nothing stale it returns 0 at once
PruneEnter(timeout) ==
    /\ life = "running"
    /\ pr.pc = "idle"
    /\ LET stale == Stale(hub, now, timeout)
       IN  pr' = [pc |-> IF stale = <<>> THEN "idle" ELSE "close",
                  stale |-> stale, count |-> Len(stale)]
    /\ UNCHANGED <<hub, epc, sock, now, bcVars, reply, cfgVars, adapterVars>>

\* websocket.close(code=1000) completes (an error, the socket being closed
\* already, is swallowed), disconnect follows, and the loop goes on to the next
\* close or returns len(stale)
PruneStep ==
    /\ pr.pc = "close"
    /\ sock' = [sock EXCEPT ![Head(pr.stale)] = IF @ = "open" THEN "closed_1000" ELSE @]
    /\ hub' = disconnect(hub, Head(pr.stale))
    /\ pr' = [pr EXCEPT !.stale = Tail(@), !.pc = IF Tail(pr.stale) = <<>> THEN "idle" ELSE "close"]
    /\ UNCHANGED <<epc, now, bcVars, reply, cfgVars, adapterVars>>

PruneBegin(timeout) == PruneEnter(timeout) /\ UNCHANGED obsVars

PruneResume == PruneStep /\ UNCHANGED obsVars

\* the same two steps, with what the pass found and removed recorded
PruneBeginObs(timeout) ==
    /\ PruneEnter(timeout)
    /\ reap' = [scan |-> {pr'.stale[i] : i \in 1..Len(pr'.stale)}, removed |-> {},
                at |-> now, timeout |-> timeout]
    /\ UNCHANGED authtok

PruneResumeObs ==
    /\ PruneStep
    /\ reap' = [reap EXCEPT !.removed = @ \cup (DOMAIN hub.connections \ DOMAIN hub'.connections)]
    /\ UNCHANGED authtok

\* ------------------------------------------------------- config watch
\* the document is rewritten (or removed) on disk
EditDoc(content) ==
    /\ doc.mtime < MaxEdits
    /\ doc' = [content |-> content, mtime |-> doc.mtime + 1]
    /\ UNCHANGED <<hubVars, life, cfg, watch, cfgop, adapterVars>>

\* _watch_loop, up to its first sleep; with no file it returns at once
WatchStart ==
    /\ watch.pc = "new"
    /\ watch' = IF doc.content.file = "missing"
                THEN [pc |-> "stopped", last_mtime |-> 0]
                ELSE [pc |-> "sleep", last_mtime |-> doc.mtime]
    /\ UNCHANGED <<hubVars, life, cfg, doc, cfgop, adapterVars>>

\* a watch loop that a failed reload ends
watch_poll_stops(w, c, h, d) ==
    IF d.content.file = "missing"
    THEN [watch |-> [w EXCEPT !.pc = "stopped"], cfg |-> c, hub |-> h,
          called |-> FALSE, raised |-> FALSE, calls |-> <<>>]
    ELSE IF d.mtime # w.last_mtime
    THEN LET r == reload(c, h, d.content)
         IN  [watch |-> IF r.raised THEN [w EXCEPT !.pc = "stopped"]
                        ELSE [w EXCEPT !.last_mtime = d.mtime],
              cfg |-> r.cfg, hub |-> r.hub,
              called |-> TRUE, raised |-> r.raised, calls |-> r.calls]
    ELSE [watch |-> w, cfg |-> c, hub |-> h,
          called |-> FALSE, raised |-> FALSE, calls |-> <<>>]

\* one turn of the while loop of _watch_loop, after the sleep
watch_poll(w, c, h, d) ==
    IF d.content.file = "missing"
    THEN [watch |-> [w EXCEPT !.pc = "stopped"], cfg |-> c, hub |-> h,
          called |-> FALSE, raised |-> FALSE, calls |-> <<>>]
    ELSE IF d.mtime # w.last_mtime
    THEN LET r == reload(c, h, d.content)
         IN  [watch |-> IF r.raised THEN w ELSE [w EXCEPT !.last_mtime = d.mtime],
              cfg |-> r.cfg, hub |-> r.hub,
              called |-> TRUE, raised |-> r.raised, calls |-> r.calls]
    ELSE [watch |-> w, cfg |-> c, hub |-> h,
          called |-> FALSE, raised |-> FALSE, calls |-> <<>>]

\* _watch_loop: one wake-up from asyncio.sleep
WatchPoll ==
    /\ watch.pc = "sleep"
    /\ LET r == watch_poll(watch, cfg, hub, doc)
       IN  /\ watch' = r.watch
           /\ cfg' = r.cfg
           /\ hub' = r.hub
           /\ cfgop' = IF r.called
                       THEN [Outcome("reload", r.raised, r.calls, doc)
                                EXCEPT !.failed = @ \/ r.raised]
                       ELSE [cfgop EXCEPT !.op = "poll", !.raised = FALSE, !.calls = <<>>]
    /\ UNCHANGED <<epc, sock, now, bcVars, pr, reply, obsVars, life, doc, adapterVars>>

\* a stop_watch that awaits the task without cancelling it
stop_watch_no_cancel(w) == [watch |-> w, raised |-> FALSE]

\* stop_watch: with no task (_reload_task is None) nothing is done.  Otherwise
\* the task is cancelled and awaited: a task that never ran ends cancelled and
\* the CancelledError of the await is swallowed; a task at its sleep gets the
\* CancelledError there, catches it and ends; a task that has returned already
\* is left as it is.  The watch task has no suspension point other than the
\* sleep, and a cancelled task runs no further turn of its loop.
stop_watch(w) ==
    [watch |-> IF w.pc \in {"new", "sleep"} THEN [w EXCEPT !.pc = "cancelled"] ELSE w,
     raised |-> FALSE]

\* stop_watch(), by a caller that holds the manager
StopWatch ==
    /\ LET r == stop_watch(watch)
       IN  /\ watch' = r.watch
           /\ cfgop' = [cfgop EXCEPT !.op = "stop_watch", !.raised = r.raised, !.calls = <<>>]
    /\ UNCHANGED <<hubVars, life, cfg, doc, adapterVars>>

\* ------------------------------------------------------------- shutdown
\* lifespan after the yield, up to `await event_bus.stop()`: prune_job.cancel().
\* The prune task is at its sleep or at the close of a stale socket; the
\* CancelledError is raised there, passes `except Exception` of
\* prune_stale_connections and ends the loop of prune_task.  The close that
\* was in progress has closed the socket or has not.
LifespanShutdown ==
    /\ life = "running"
    /\ life' = "stopping"
    /\ pr' = [pr EXCEPT !.pc = "cancelled"]
    /\ IF pr.pc = "close"
       THEN \E closed \in BOOLEAN :
               sock' = [sock EXCEPT ![Head(pr.stale)] =
                            IF closed /\ @ = "open" THEN "closed_1000" ELSE @]
       ELSE sock' = sock
    /\ UNCHANGED <<hub, epc, now, bcVars, reply, obsVars, cfg, doc, watch, cfgop, adapterVars>>

\* lifespan: `await config_manager.stop_watch()`
LifespanStopWatch ==
    /\ life = "stopping"
    /\ life' = "unloading"
    /\ LET r == stop_watch(watch)
       IN  /\ watch' = r.watch
           /\ cfgop' = [cfgop EXCEPT !.op = "stop_watch", !.raised = r.raised, !.calls = <<>>]
    /\ UNCHANGED <<hubVars, cfg, doc, adapterVars>>

\* ------------------------------------------------ ConfigManager, called
\* load(), by a caller that holds the manager
Load ==
    /\ cfg.version < MaxLoads
    /\ cfg' = load(cfg, doc.content)
    /\ cfgop' = Outcome("load", LoadRaises(doc.content), <<>>, doc)
    /\ UNCHANGED <<hubVars, life, doc, watch, adapterVars>>

\* reload()
Reload ==
    /\ cfg.version < MaxLoads
    /\ LET r == reload(cfg, hub, doc.content)
       IN  /\ cfg' = r.cfg
           /\ hub' = r.hub
           /\ cfgop' = Outcome("reload", r.raised, r.calls, doc)
    /\ UNCHANGED <<epc, sock, now, bcVars, pr, reply, obsVars, life, doc, watch, adapterVars>>

\* on_change(callback)
OnChange(callback) ==
    /\ Len(cfg.callbacks) < MaxCallbacks
    /\ cfg' = on_change(cfg, callback)
    /\ UNCHANGED <<hubVars, life, doc, watch, cfgop, adapterVars>>

\* the document is rewritten with to_dict() of the manager
SaveDoc ==
    /\ doc.mtime < MaxEdits
    /\ doc' = [content |-> to_dict(cfg), mtime |-> doc.mtime + 1]
    /\ UNCHANGED <<hubVars, life, cfg, watch, cfgop, adapterVars>>

\* ------------------------------------------------ adapters, live
\* lifespan: load_all of the enabled platforms, then the message handler is
\* installed on every adapter get_adapter returns
LifespanLoadAll(configs) ==
    /\ \A p \in Platforms : ~inst[p].made
    /\ live = {}
    /\ LET r == load_all(configs)
       IN  /\ live' = r.live
           /\ inst' = [p \in Platforms |->
                          IF get_adapter(r.live, p) # "absent"
                          THEN set_message_handler(p, r.inst[p], "default") ELSE r.inst[p]]
    /\ UNCHANGED <<hubVars, cfgVars, sent, others, pending, call, inbound>>

\* unload_all: shutdown() of every live adapter, then the live set is cleared
UnloadAll ==
    /\ live # {}
    /\ inst' = [p \in Platforms |-> IF p \in live THEN shutdown(p, inst[p]) ELSE inst[p]]
    /\ live' = {}
    /\ UNCHANGED <<hubVars, cfgVars, sent, others, pending, call, inbound>>

\* the QQ thread: client.run has logged in, client.api is set
QQLogin ==
    /\ inst["qq"].thread = "running" /\ inst["qq"].creds = "good" /\ ~inst["qq"].api
    /\ inst' = [inst EXCEPT !["qq"].api = TRUE]
    /\ UNCHANGED <<hubVars, cfgVars, sent, others, pending, live, call, inbound>>

\* the thread of an adapter ends (client.run or client.start raised or
\* returned); its loop is closed
ThreadCrash(p) ==
    /\ inst[p].thread \in {"running", "stuck"}
    /\ inst' = [inst EXCEPT ![p].thread = "ended"]
    /\ UNCHANGED <<hubVars, cfgVars, sent, others, pending, live, call, inbound>>

\* the loop of the QQ thread stops running what is submitted to it
ThreadStall ==
    /\ inst["qq"].thread = "running"
    /\ inst' = [inst EXCEPT !["qq"].thread = "stuck"]
    /\ UNCHANGED <<hubVars, cfgVars, sent, others, pending, live, call, inbound>>

\* the loop on which the code that receives a platform's messages runs: the
\* loop of the adapter's own thread, and for the Feishu webhook the hub's
LoopOf(p) == IF p = "feishu" THEN "hub" ELSE p

\* a platform message arrives.  QQ and DingTalk: on the adapter's thread,
\* which converts it and calls the installed handler there; Feishu: through
\* the webhook route.  _default_message_handler takes
\* asyncio.get_event_loop(), the running loop of the thread it is called on,
\* and creates the broadcast task on it.
Inbound(p, e) ==
    /\ Dispatched(p, inst[p], e) # <<>> /\ inst[p].creds = "good"
    /\ IF p = "feishu" THEN p \in live
       ELSE inst[p].thread = "running" /\ (p = "qq" => inst[p].api)
    /\ inbound' = [platform |-> p, loop |-> LoopOf(p), shut |-> inst[p].shut,
                   handlers |-> Dispatched(p, inst[p], e), event |-> e, message |-> Convert(p, e)]
    /\ UNCHANGED <<hubVars, cfgVars, sent, others, pending, live, inst, call>>

\* ------------------------------------------------ adapters, held directly
\* an adapter is constructed by a holder of its class
AdapterNew(p, setting) ==
    /\ live = {} /\ ~inst[p].made
    /\ setting # "disabled"
    /\ inst' = [inst EXCEPT ![p] = Construct(p, setting)]
    /\ UNCHANGED <<hubVars, cfgVars, sent, others, pending, live, call, inbound>>

\* initialize() of an adapter that has not been initialized or shut down
AdapterInitialize(p) ==
    /\ inst[p].made /\ ~inst[p].client /\ inst[p].thread = "none" /\ ~inst[p].shut
    /\ p \notin live
    /\ inst' = [inst EXCEPT ![p] = initialize(p, @).inst]
    /\ UNCHANGED <<hubVars, cfgVars, sent, others, pending, live, call, inbound>>

\* set_message_handler(handler) on an adapter, before or after initialize()
SetMessageHandler(p, handler) ==
    /\ inst[p].made
    /\ inst' = [inst EXCEPT ![p] = set_message_handler(p, @, handler)]
    /\ UNCHANGED <<hubVars, cfgVars, sent, others, pending, live, call, inbound>>

\* ------------------------------------------------ router, called
\* route_outgoing(platform, ...) up to its first suspension
RouteOutgoing(p, ct) ==
    /\ call.pc \in {"idle", "done"}
    /\ LET r == route_outgoing(live, inst, p)
       IN  call' = [pc |-> r.pc, op |-> "route_outgoing", platform |-> p, ct |-> ct,
                    timeout |-> 0, elapsed |-> 0, sends |-> r.sends, bridge |-> r.bridge,
                    result |-> "none", outcome |-> r.outcome, id |-> 0]
    /\ UNCHANGED <<hubVars, cfgVars, sent, others, pending, live, inst, inbound>>

\* send_and_wait(platform, ..., timeout) up to its first suspension
SendAndWait(p, ct, timeout) ==
    /\ call.pc \in {"idle", "done"}
    /\ Cardinality(pending) < MaxCalls
    /\ LET r == send_and_wait(live, inst, p, timeout)
           message_id == create_message_id(pending)
       IN  /\ call' = [pc |-> r.pc, op |-> "send_and_wait", platform |-> p, ct |-> ct,
                       timeout |-> timeout, elapsed |-> 0, sends |-> r.sends, bridge |-> r.bridge,
                       result |-> "none", outcome |-> r.outcome, id |-> message_id]
           /\ pending' = IF r.pc = "sending" THEN pending \cup {message_id}
                         ELSE pop(pending \cup {message_id}, "send_and_wait", message_id)
    /\ UNCHANGED <<hubVars, cfgVars, sent, others, live, inst, inbound>>

\* the QQ thread's loop runs the queued _do_send to its end; the platform API
\* accepts the message or not
BridgeRun(ok) ==
    /\ call.pc = "sending" /\ call.bridge = "queued"
    /\ inst["qq"].thread = "running"
    /\ call' = [call EXCEPT !.bridge = "returned", !.result = do_send(call.ct, ok)]
    /\ UNCHANGED <<hubVars, cfgVars, sent, others, pending, live, inst, inbound>>

\* the hub loop resumes send_message with the result of the future
CallResume ==
    /\ call.pc = "sending" /\ call.bridge = "returned"
    /\ call' = [call EXCEPT !.pc = "done", !.outcome = call.result]
    /\ pending' = pop(pending, call.op, call.id)
    /\ UNCHANGED <<hubVars, cfgVars, sent, others, live, inst, inbound>>

\* the HTTP request of the DingTalk or Feishu client ends: the client returns
\* True and send_message an id, or False and send_message raises
HttpDone(ok) ==
    /\ call.pc = "sending" /\ call.bridge = "http"
    /\ ok => inst[call.platform].creds = "good"
    /\ call' = [call EXCEPT !.pc = "done", !.outcome = IF ok THEN "id" ELSE "error"]
    /\ pending' = pop(pending, call.op, call.id)
    /\ UNCHANGED <<hubVars, cfgVars, sent, others, live, inst, inbound>>

\* time passes while send_and_wait is suspended; the hub loop runs a timer
\* callback when it is due
Elapse ==
    /\ call.pc = "sending" /\ call.op = "send_and_wait"
    /\ ~Expired(call)
    /\ call.elapsed < MaxDeadline
    /\ call' = [call EXCEPT !.elapsed = @ + 1]
    /\ UNCHANGED <<hubVars, cfgVars, sent, others, pending, live, inst, inbound>>

\* the deadline of wait_for passes: route_outgoing is cancelled at its await
\* and send_and_wait raises TimeoutError
Timeout ==
    /\ call.pc = "sending"
    /\ Expired(call)
    /\ call' = [call EXCEPT !.pc = "done", !.outcome = "timeout"]
    /\ pending' = pop(pending, call.op, call.id)
    /\ UNCHANGED <<hubVars, cfgVars, sent, others, live, inst, inbound>>

\* the caller of the router call in flight is cancelled: CancelledError is
\* raised at the await, passes `except Exception`, and `finally` runs
CallCancel ==
    /\ call.pc = "sending"
    /\ call' = [call EXCEPT !.pc = "done", !.outcome = "cancelled"]
    /\ pending' = pop(pending, call.op, call.id)
    /\ UNCHANGED <<hubVars, cfgVars, sent, others, live, inst, inbound>>

\* another task calls send_and_wait and is suspended in it: its id is in the map
OtherStart ==
    /\ Cardinality(pending) < MaxCalls
    /\ LET message_id == create_message_id(pending)
       IN  /\ pending' = pending \cup {message_id}
           /\ others' = others \cup {message_id}
    /\ UNCHANGED <<hubVars, cfgVars, sent, live, inst, call, inbound>>

\* that call ends: it returns, or its adapter raises, or its deadline passes,
\* or it is cancelled; `finally` runs in each case
OtherFinish(message_id) ==
    /\ message_id \in others
    /\ others' = others \ {message_id}
    /\ pending' = pop(pending, "send_and_wait", message_id)
    /\ UNCHANGED <<hubVars, cfgVars, sent, live, inst, call, inbound>>

\* ------------------------------------------------ adapters, ids returned
\* send_message of the adapter of platform p returns for a message to `to`
\* that the platform accepted
SendOk(p, to) ==
    /\ Len(sent) < MaxSends
    /\ sent' = Append(sent, [platform |-> p, to |-> to, at |-> now,
                              id |-> sent_id(p, to, now, Len(sent) + 1)])
    /\ UNCHANGED <<hubVars, cfgVars, others, pending, live, inst, call, inbound>>

\* ----------------------------------------------------------------- Next
Lifespan ==
    \/ LifespanLoad
    \/ LifespanStart

Endpoint ==
    \/ \E w \in WS : Connect(w)
    \/ \E w \in WS : ClientDrop(w)
    \/ \E w \in WS : RecvDisconnect(w)

Close == \E w \in WS : CloseReturn(w)

Frame == \E w \in WS, f \in Frames, drop \in BOOLEAN : RecvFrame(w, f, drop)

FrameReply == \E w \in WS, f \in Frames, drop \in BOOLEAN : RecvFrameReply(w, f, drop)

FrameAuth == \E w \in WS, f \in Frames, drop \in BOOLEAN : RecvFrameAuth(w, f, drop)

TokenSet == \E tokens \in TokenLists : SetValidTokens(tokens)

AuthFrame == \E w \in WS, f \in {x \in Frames : x.type = "auth"} : RecvFrame(w, f, FALSE)

Broadcast ==
    \/ \E channel \in BroadcastChannels : BroadcastBegin(channel)
    \/ BroadcastResume

Prune ==
    \/ Tick
    \/ \E timeout \in Timeouts : PruneBegin(timeout)
    \/ PruneResume

PruneObs ==
    \/ Tick
    \/ \E timeout \in Timeouts : PruneBeginObs(timeout)
    \/ PruneResumeObs

Watch ==
    \/ \E content \in Contents : EditDoc(content)
    \/ WatchStart
    \/ WatchPoll

Manager ==
    \/ Load
    \/ Reload
    \/ \E callback \in CallbackIds : OnChange(callback)

AdapterManager ==
    \/ \E configs \in Configs : LifespanLoadAll(configs)
    \/ UnloadAll

Threads ==
    \/ QQLogin
    \/ \E p \in {"qq", "dingtalk"} : ThreadCrash(p)
    \/ ThreadStall

Handler == \E p \in Platforms \ {"wecom"} : \E e \in Events(p) : Inbound(p, e)

Holder ==
    \/ \E p \in Registered, setting \in {"good", "empty"} : setting \in PlatformSettings(p) /\ AdapterNew(p, setting)
    \/ \E p \in Registered : AdapterInitialize(p)
    \/ \E p \in Registered, handler \in Handlers : SetMessageHandler(p, handler)

Router ==
    \/ \E p \in Platforms, ct \in ConversationTypes : RouteOutgoing(p, ct)
    \/ \E p \in Platforms, ct \in ConversationTypes, timeout \in Deadlines : SendAndWait(p, ct, timeout)
    \/ \E ok \in BOOLEAN : BridgeRun(ok)
    \/ CallResume
    \/ \E ok \in BOOLEAN : HttpDone(ok)
    \/ Elapse
    \/ Timeout

Concurrent ==
    \/ CallCancel
    \/ OtherStart
    \/ \E message_id \in 1..(MaxCalls + 1) : OtherFinish(message_id)

Calls ==
    \/ \E p \in Platforms, ct \in ConversationTypes, timeout \in Deadlines : SendAndWait(p, ct, timeout)
    \/ \E ok \in BOOLEAN : BridgeRun(ok)
    \/ CallResume
    \/ \E ok \in BOOLEAN : HttpDone(ok)
    \/ Elapse
    \/ Timeout

Sends ==
    \/ Tick
    \/ \E p \in Registered, to \in Recipients : SendOk(p, to)

Shutdown ==
    \/ LifespanShutdown
    \/ LifespanStopWatch

\* the whole hub: endpoint handlers, broadcasts and the prune task
Next == Lifespan \/ Endpoint \/ Frame \/ Close \/ Broadcast \/ Prune
Spec == Init /\ [][Next]_vars

\* endpoint handlers and broadcasts
SpecBroadcast == Init /\ [][Lifespan \/ Endpoint \/ Frame \/ Close \/ Broadcast]_vars

\* endpoint handlers and the prune task
SpecPrune == Init /\ [][Lifespan \/ Endpoint \/ Frame \/ Close \/ Prune]_vars

\* endpoint handlers and the prune task, each prune pass recorded
SpecReap == Init /\ [][Lifespan \/ Endpoint \/ Frame \/ Close \/ PruneObs]_vars

\* the same with the prune task scheduled fairly: while the application runs
\* its loop (main.py 159-169) goes on calling prune_stale_connections, every
\* close it awaits returns, and time passes
SpecPruneTask ==
    /\ SpecReap
    /\ WF_vars(\E timeout \in Timeouts : PruneBeginObs(timeout))
    /\ WF_vars(PruneResumeObs)
    /\ WF_vars(Tick)

\* endpoint handlers alone, each reply frame recorded
SpecEndpoint == Init /\ [][Lifespan \/ Endpoint \/ FrameReply \/ Close]_vars

\* endpoint handlers while the valid tokens are replaced, each accepted token
\* recorded
SpecTokens == Init /\ [][Lifespan \/ Endpoint \/ FrameAuth \/ Close \/ TokenSet]_vars

\* startup, hot reload and authentication, for any configuration document
InitConfig ==
    /\ hub = NewManager
    /\ epc = [w \in WS |-> "init"]
    /\ sock = [w \in WS |-> "open"]
    /\ now = 0
    /\ bc = IdleBroadcast
    /\ bstart = {}
    /\ attempted = {}
    /\ delivered = {}
    /\ pr = [pc |-> "idle", stale |-> <<>>, count |-> 0]
    /\ reply = [to |-> 0, frame |-> NoFrame, delivered |-> FALSE]
    /\ reap = NoReap
    /\ authtok = [w \in WS |-> ""]
    /\ life = "boot"
    /\ cfg = NewConfigManager
    /\ doc \in {[content |-> c, mtime |-> 0] : c \in Contents}
    /\ watch = [pc |-> "none", last_mtime |-> 0]
    /\ cfgop = NoOp
    /\ live = {}
    /\ inst = [p \in Platforms |-> NoInstance]
    /\ call = IdleCall
    /\ inbound = NoInbound
    /\ pending = {}
    /\ others = {}
    /\ sent = <<>>

SpecConfig == InitConfig /\ [][Lifespan \/ Watch \/ Endpoint \/ AuthFrame]_vars

\* the ConfigManager driven through load, reload and on_change while the
\* document changes
SpecManager ==
    InitConfig /\ [][Manager \/ (\E content \in Contents : EditDoc(content))]_vars

\* startup, the watch task and shutdown, for any configuration document
SpecStopWatch == InitConfig /\ [][Lifespan \/ Watch \/ StopWatch \/ Shutdown]_vars

\* endpoint handlers, the prune task and shutdown
SpecShutdown == Init /\ [][Lifespan \/ Endpoint \/ Frame \/ Close \/ Prune \/ Shutdown]_vars

\* the adapters, their threads and the messages they receive
SpecAdapters == Init /\ [][AdapterManager \/ Threads \/ Handler]_vars

\* the adapters, their threads and the router
\* adapters loaded by the application or held directly, their handlers
\* replaced at any moment, and inbound messages
SpecHandlers == Init /\ [][AdapterManager \/ Holder \/ Threads \/ Handler]_vars

\* send_and_wait calls in flight together, each ending in any way
SpecPending == Init /\ [][AdapterManager \/ Threads \/ Calls \/ Concurrent]_vars

\* the ids the adapters return for the messages they sent
SpecIds == Init /\ [][Sends]_vars

SpecRouter == Init /\ [][AdapterManager \/ Threads \/ Router]_vars

\* the same, where every step that stays possible is taken in the end
SpecBridge ==
    /\ SpecRouter
    /\ WF_vars(\E ok \in BOOLEAN : BridgeRun(ok))
    /\ WF_vars(CallResume)
    /\ WF_vars(\E ok \in BOOLEAN : HttpDone(ok))
    /\ WF_vars(Elapse)
    /\ WF_vars(Timeout)

\* load and to_dict over every document
InitSettings ==
    /\ hub = NewManager
    /\ epc = [w \in WS |-> "init"]
    /\ sock = [w \in WS |-> "open"]
    /\ now = 0
    /\ bc = IdleBroadcast
    /\ bstart = {}
    /\ attempted = {}
    /\ delivered = {}
    /\ pr = [pc |-> "idle", stale |-> <<>>, count |-> 0]
    /\ reply = [to |-> 0, frame |-> NoFrame, delivered |-> FALSE]
    /\ reap = NoReap
    /\ authtok = [w \in WS |-> ""]
    /\ life = "boot"
    /\ cfg = NewConfigManager
    /\ doc \in {[content |-> c, mtime |-> 0] : c \in Documents}
    /\ watch = [pc |-> "none", last_mtime |-> 0]
    /\ cfgop = NoOp
    /\ live = {}
    /\ inst = [p \in Platforms |-> NoInstance]
    /\ call = IdleCall
    /\ inbound = NoInbound
    /\ pending = {}
    /\ others = {}
    /\ sent = <<>>

SpecSettings == InitSettings /\ [][Load \/ SaveDoc]_vars

\* ================================================================ claims
\* every socket held in any subscriber set of h
Subscribers(h) ==
    UNION {UNION {h.subscriptions[u][c] : c \in DOMAIN h.subscriptions[u]} : u \in DOMAIN h.subscriptions}

\* the last broadcast has returned bc.sent_count
Returned_ == bc.pc = "done"

\* C1: in every reachable state the identities keying the subscription map are
\* exactly the identities of the registered connections, and every socket in a
\* subscriber set is a registered connection stored under its own identity.
C1_SubscriptionsMatchConnections ==
    /\ DOMAIN hub.subscriptions = {hub.connections[w].user_id : w \in DOMAIN hub.connections}
    /\ \A u \in DOMAIN hub.subscriptions : \A c \in DOMAIN hub.subscriptions[u] :
          \A w \in hub.subscriptions[u][c] :
              w \in DOMAIN hub.connections /\ hub.connections[w].user_id = u

\* C1 witness: one connection has been disconnected while another, subscribed
\* to two channels, is live, with a broadcast and a prune pass both suspended
C1_Witness ==
    \E w, v \in WS :
        /\ epc[w] = "done"
        /\ v \in DOMAIN hub.connections
        /\ DOMAIN hub.subscriptions[user_id(v)] = {"messages", "*"}
        /\ bc.pc = "send"
        /\ pr.pc = "close"

\* the identities still to be visited by the broadcast in flight
Queued == {bc.queue[i] : i \in 1..Len(bc.queue)}

C3_OnlySnapshotTargets == attempted \subseteq bstart

\* C4 (as claimed): the count a broadcast returns is the number of connections
\* whose send succeeded
C4_CountIsDeliveries == Returned_ => bc.sent_count = Cardinality(delivered)

\* the step in which the send the broadcast was suspended at has failed
SendFailed == bc.pc = "send" /\ bc' # bc /\ bc.target \notin delivered'

\* C5: when a send of a broadcast fails, the target is removed from the
\* registry and from every subscriber set in that step; the broadcast is not
\* aborted - it goes on to the next target of its snapshot, every remaining
\* subscribed target staying due - and a "*" broadcast returns having attempted
\* every connection of its snapshot.
C5_FailureIsolated ==
    /\ [][SendFailed =>
            /\ bc.target \notin DOMAIN hub'.connections
            /\ user_id(bc.target) \notin DOMAIN hub'.subscriptions
            /\ bc.target \notin Subscribers(hub')
            /\ bc'.disconnected = <<>>
            /\ bc.channel = Wildcard =>
                  IF bc.queue = <<>> THEN bc'.pc = "done"
                  ELSE bc'.pc = "send" /\ bc'.target = Head(bc.queue) /\ bc'.queue = Tail(bc.queue)
            /\ bc.channel # Wildcard =>
                  \A w \in Targets(hub', bc.channel) :
                      user_id(w) \in Queued
                      => bc'.pc = "send" /\ (w = bc'.target \/ user_id(w) \in Queued')
       ]_vars
    /\ []((Returned_ /\ bc.channel = Wildcard) => attempted = bstart)

\* C5 witness: a "*" broadcast has returned after a failed send to one target
\* and a successful send to a later one
C5_Witness ==
    /\ Returned_
    /\ bc.channel = Wildcard
    /\ \E w, v \in attempted : w < v /\ w \notin delivered /\ v \in delivered

\* C6: a "*" broadcast attempts delivery to every connection registered when it
\* began, whatever its subscriptions or authentication; a broadcast on a named
\* channel attempts delivery only to connections subscribed to that channel at
\* the moment of the attempt, and to every connection that is subscribed to it
\* from the beginning of the broadcast to its end.
C6_BroadcastTargets ==
    /\ [][(bc' # bc /\ bc.pc # "send" /\ bc'.channel = Wildcard)
            => bstart' = DOMAIN hub.connections]_vars
    /\ []((Returned_ /\ bc.channel = Wildcard) => attempted = bstart)
    /\ [][(bc' # bc /\ bc'.pc = "send" /\ bc'.channel # Wildcard)
            => bc'.target \in Targets(hub', bc'.channel)]_vars
    /\ []((Returned_ /\ bc.channel # Wildcard)
            => (bstart \cap Targets(hub, bc.channel)) \subseteq attempted)

\* C6 witness: a "messages" broadcast has returned having reached a subscriber
\* and passed over a live connection that is subscribed only to another channel
C6_Witness ==
    /\ Returned_
    /\ bc.channel = "messages"
    /\ \E w, v \in DOMAIN hub.connections :
          /\ w \in delivered
          /\ v \notin attempted
          /\ DOMAIN hub.subscriptions[user_id(v)] = {"*"}

\* a connection is registered and flagged authenticated
Authenticated(h, w) == w \in DOMAIN h.connections /\ h.connections[w].authenticated

\* C7: a subscribe frame from a connection that is not authenticated takes
\* the handler to websocket.close(code=4008) with no subscription added and
\* the connection still unauthenticated; when that close returns the socket,
\* if it was still open, is closed with code 4008, and the handler ends with
\* the connection disconnected; and in every state every connection that has
\* a subscription is authenticated.
C7_SubscribeNeedsAuth ==
    /\ [](\A w \in DOMAIN hub.connections :
            DOMAIN hub.subscriptions[user_id(w)] # {} => hub.connections[w].authenticated)
    /\ [][\A w \in WS, f \in Frames, d \in BOOLEAN :
            (f.type = "subscribe" /\ ~Authenticated(hub, w) /\ RecvFrameReply(w, f, d))
            => /\ epc'[w] = "closing"
               /\ hub'.subscriptions = hub.subscriptions
               /\ ~Authenticated(hub', w)
               /\ w \notin Subscribers(hub')
       ]_vars
    /\ [][\A w \in WS :
            epc[w] = "closing"
            => /\ epc'[w] \in {"closing", "done"}
               /\ ~Authenticated(hub', w)
               /\ w \notin Subscribers(hub')
               /\ epc'[w] = "done"
                    => /\ sock[w] = "open" => sock'[w] = "closed_4008"
                       /\ w \notin DOMAIN hub'.connections
                       /\ user_id(w) \notin DOMAIN hub'.subscriptions
       ]_vars

\* C7 witness: one socket was closed with 4008 and its handler has ended,
\* while another connection, authenticated, holds a subscription
C7_Witness ==
    \E w, v \in WS :
        /\ sock[w] = "closed_4008" /\ epc[w] = "done" /\ w \notin DOMAIN hub.connections
        /\ Authenticated(hub, v) /\ DOMAIN hub.subscriptions[user_id(v)] # {}

\* an auth frame with a token outside the valid-token set is dispatched
BadAuth(w, f, d) ==
    /\ f.type = "auth" /\ f.valid /\ ~validate_token(hub, f.token)
    /\ RecvFrameReply(w, f, d)

\* C8 (as claimed): handle_auth with an invalid token sends the error frame
\* {error: "Invalid token", code: 401} and leaves the connection registered,
\* its authenticated flag and its subscriptions as they were
C8_BadTokenChangesNothing ==
    [][\A w \in WS, f \in Frames, d \in BOOLEAN :
        BadAuth(w, f, d)
        => /\ reply'.to = w /\ reply'.frame = AuthError
           /\ w \in DOMAIN hub'.connections
           /\ hub'.connections[w].authenticated = hub.connections[w].authenticated
           /\ hub'.subscriptions[user_id(w)] = hub.subscriptions[user_id(w)]
      ]_vars

\* C8 (amended): the error frame is what handle_auth passes to send_json; when
\* that send succeeds the connection stays registered with its flag and its
\* subscriptions as they were; when that send raises, send_json disconnects
\* the connection, removing its record and its subscriptions.
C8_BadTokenKeepsStateUnlessSendFails ==
    [][\A w \in WS, f \in Frames, d \in BOOLEAN :
        BadAuth(w, f, d)
        => /\ reply'.to = w /\ reply'.frame = AuthError
           /\ reply'.delivered = ~d
           /\ IF reply'.delivered
              THEN /\ w \in DOMAIN hub'.connections
                   /\ hub'.connections[w].authenticated = hub.connections[w].authenticated
                   /\ hub'.subscriptions[user_id(w)] = hub.subscriptions[user_id(w)]
              ELSE /\ w \notin DOMAIN hub'.connections
                   /\ user_id(w) \notin DOMAIN hub'.subscriptions
      ]_vars

\* C8 witness: an authenticated connection holding a subscription has just
\* been sent the error frame and is still registered and authenticated
C8_Witness ==
    /\ reply.frame = AuthError /\ reply.delivered
    /\ Authenticated(hub, reply.to)
    /\ DOMAIN hub.subscriptions[user_id(reply.to)] # {}

\* C9 (as claimed): once the application runs, the hub's valid-token set is
\* the auth.token of the current Settings Snapshot, also after a hot reload
C9_TokensFollowReload ==
    (life = "running" /\ cfg.token # "") => hub.valid_tokens = {cfg.token}

\* C10: a connection is unauthenticated when connect registers it, and only a
\* handler that has not connected yet registers it; it becomes authenticated
\* only by an auth frame whose token is valid; while registered it never goes
\* back to unauthenticated; once removed it is never registered again; and a
\* handler that has ended has left its connection disconnected.
C10_Lifecycle ==
    /\ [][\A w \in WS :
            /\ (w \notin DOMAIN hub.connections /\ w \in DOMAIN hub'.connections)
                  => (epc[w] = "init" /\ ~hub'.connections[w].authenticated)
            /\ (~Authenticated(hub, w) /\ Authenticated(hub', w))
                  => \E f \in Frames, d \in BOOLEAN :
                        f.type = "auth" /\ validate_token(hub, f.token) /\ RecvFrame(w, f, d)
            /\ (Authenticated(hub, w) /\ w \in DOMAIN hub'.connections) => Authenticated(hub', w)
            /\ (epc[w] # "init" /\ w \notin DOMAIN hub.connections)
                  => (w \notin DOMAIN hub'.connections /\ ~is_authenticated(hub', w))
       ]_vars
    /\ [](\A w \in WS : epc[w] = "done" => w \notin DOMAIN hub.connections)

\* C10 witness: a stale connection was pruned and closed with code 1000, its
\* handler not yet woken, while another connection is registered and unauthenticated
C10_Witness ==
    \E w, v \in WS :
        /\ epc[w] = "recv" /\ sock[w] = "closed_1000" /\ w \notin DOMAIN hub.connections
        /\ v \in DOMAIN hub.connections /\ ~hub.connections[v].authenticated

\* the connections whose last_seen is more than timeout older than time t
StaleAt(h, t, timeout) ==
    {w \in DOMAIN h.connections : t - h.connections[w].last_seen > timeout}

\* connection v and its subscriptions are the same in h2 as in h1
SameConnection(h1, h2, v) ==
    /\ v \in DOMAIN h2.connections
    /\ h2.connections[v] = h1.connections[v]
    /\ h2.subscriptions[user_id(v)] = h1.subscriptions[user_id(v)]

C12_LastSeenRefreshed ==
    /\ [][\A w \in WS, f \in Frames, d \in BOOLEAN :
            RecvFrame(w, f, d)
            => /\ w \in DOMAIN hub'.connections => hub'.connections[w].last_seen = now
               /\ \A v \in DOMAIN hub'.connections \ {w} :
                     hub'.connections[v].last_seen = hub.connections[v].last_seen
       ]_vars
    /\ [][\A v \in DOMAIN hub.connections \cap DOMAIN hub'.connections :
            hub'.connections[v].last_seen >= hub.connections[v].last_seen
       ]_vars

\* C12 witness: a connection registered at an earlier time has been refreshed
\* by a frame, while another has not been heard from since it connected
C12_Witness ==
    \E w, v \in DOMAIN hub.connections :
        /\ hub.connections[w].last_seen = now /\ now > 0
        /\ hub.connections[v].last_seen < now
        /\ epc[w] = "recv" /\ epc[v] = "recv"

\* C13 (as claimed): every load() or reload() that completes without raising
\* (every one that replaces the Settings Snapshot) increases version by one
C13_VersionCountsLoads ==
    [][((Load \/ Reload) /\ ~LoadRaises(doc.content)) => cfg'.version = cfg.version + 1]_vars

\* C14: a load() or reload() that raises, the document being malformed or
\* failing validation, leaves the loaded Settings Snapshot and the version as
\* they were, invokes no change-callback and so leaves the hub as it was.
C14_FailedLoadKeepsSnapshot ==
    [][((Load \/ Reload) /\ LoadRaises(doc.content))
        => /\ Snapshot(cfg') = Snapshot(cfg)
           /\ cfg'.version = cfg.version
           /\ cfg'.callbacks = cfg.callbacks
           /\ cfgop'.raised /\ cfgop'.calls = <<>>
           /\ hub' = hub
      ]_vars

\* C14 witness: with a snapshot loaded and callbacks registered, a reload of a
\* document that parses but fails validation has raised
C14_Witness ==
    /\ cfgop.op = "reload" /\ cfgop.raised /\ cfgop.calls = <<>>
    /\ cfg.version >= 1 /\ cfg.token \in {"t1", "t2"} /\ cfg.callbacks # <<>>
    /\ doc.content.file = "ok" /\ ValidateRaises(doc.content) /\ cfg.raw = doc.content

\* C15 (as claimed): in every Settings Snapshot a load has produced, a
\* platform that is enabled has its required credential non-empty
C15_EnabledHasCredentials ==
    (cfg.token # "unloaded" /\ cfg.enabled) => cfg.app_id # ""

\* C16 (as claimed): loading the document that to_dict() of a loaded Settings
\* Snapshot was written to succeeds and yields a snapshot equal to it
C16_RoundTrip ==
    [][(Load /\ cfg.token # "unloaded" /\ doc.content = model_dump(Snapshot(cfg)))
        => (~LoadRaises(doc.content) /\ Snapshot(cfg') = Snapshot(cfg))]_vars

\* C17: a reload() whose load succeeds invokes every registered callback
\* exactly once, in registration order, each with the new snapshot; a callback
\* that raises stops neither the callbacks after it (one registered to push
\* the token into the hub has done so) nor reload(), which returns normally.
C17_CallbacksAllRun ==
    [][(Reload /\ ~LoadRaises(doc.content))
        => /\ cfgop'.calls = [i \in 1..Len(cfg.callbacks) |->
                                [callback |-> cfg.callbacks[i], config |-> Snapshot(cfg')]]
           /\ ~cfgop'.raised
           /\ (\E i \in 1..Len(cfg.callbacks) : cfg.callbacks[i] = "sync_tokens")
                 => hub'.valid_tokens = {cfg'.token}
      ]_vars

\* C17 witness: a reload has returned after invoking a callback that raises
\* and then the one that pushes the token into the hub
C17_Witness ==
    /\ cfgop.op = "reload" /\ ~cfgop.raised
    /\ Len(cfgop.calls) = 2
    /\ cfgop.calls[1].callback = "raises" /\ cfgop.calls[2].callback = "sync_tokens"
    /\ cfg.token \in {"t1", "t2"} /\ hub.valid_tokens = {cfg.token}

\* C18: load() invokes no callback; a reload() whose load raises invokes
\* none; on_change invokes none; so a callback's effect on the hub appears
\* only in a reload() that succeeds.
C18_CallbacksOnlyOnReload ==
    /\ [][Load => (cfgop'.calls = <<>> /\ hub' = hub)]_vars
    /\ [][(Reload /\ LoadRaises(doc.content)) => (cfgop'.calls = <<>> /\ hub' = hub)]_vars
    /\ [][(\E callback \in CallbackIds : OnChange(callback)) => (cfgop' = cfgop /\ hub' = hub)]_vars
    /\ [][(hub' # hub \/ (cfgop' # cfgop /\ cfgop'.calls # <<>>))
            => (Reload /\ ~LoadRaises(doc.content))]_vars

\* C18 witness: a load() has succeeded with the token-pushing callback
\* registered, and the hub has not been given the new token
C18_Witness ==
    /\ cfgop.op = "load" /\ ~cfgop.raised
    /\ \E i \in 1..Len(cfg.callbacks) : cfg.callbacks[i] = "sync_tokens"
    /\ cfg.token \in {"t1", "t2"} /\ hub.valid_tokens # {cfg.token}

\* C19 (as claimed): at each poll of the watch task the document's
\* modification time is compared with the one observed at the last successful
\* load or reload, and reload() is called when they differ
C19_PollComparesWithLastLoad ==
    [][(WatchPoll /\ doc.content.file # "missing" /\ cfgop.mtime >= 0 /\ doc.mtime # cfgop.mtime)
        => cfgop'.op = "reload"]_vars

\* C20: a reload that raises in the watch task leaves the task polling, with
\* the snapshot, the version and the remembered modification time as they
\* were; after it the document's modification time still differs from the
\* remembered one, and a poll that then finds a valid document reloads it.
C20_WatchSurvivesFailedReload ==
    /\ [][(WatchPoll /\ doc.content.file # "missing" /\ doc.mtime # watch.last_mtime
                     /\ LoadRaises(doc.content))
            => /\ watch'.pc = "sleep" /\ watch'.last_mtime = watch.last_mtime
               /\ Snapshot(cfg') = Snapshot(cfg) /\ cfg'.version = cfg.version
               /\ cfgop'.op = "reload" /\ cfgop'.raised
       ]_vars
    /\ [][(WatchPoll /\ cfgop.failed /\ doc.content.file = "ok" /\ doc.mtime # watch.last_mtime
                     /\ ~LoadRaises(doc.content))
            => /\ watch'.pc = "sleep" /\ watch'.last_mtime = doc.mtime
               /\ Snapshot(cfg') = model_validate(doc.content)
               /\ cfg'.version = cfg.version + 1
       ]_vars
    /\ []((watch.pc = "sleep" /\ cfgop.op = "reload" /\ cfgop.raised)
            => doc.mtime > watch.last_mtime)

\* C20 witness: the watch task, one of whose reloads has failed, has since
\* reloaded a valid document and is polling on
C20_Witness ==
    /\ watch.pc = "sleep" /\ cfgop.failed
    /\ cfgop.op = "reload" /\ ~cfgop.raised
    /\ cfg.version >= 2 /\ watch.last_mtime = doc.mtime

\* the watch task has ended
WatchEnded == watch.pc \in {"stopped", "cancelled"}

C22_TasksRunUntilCancelled ==
    (life = "running" /\ cfgop.op # "stop_watch")
        => (watch.pc \in {"new", "sleep"} /\ pr.pc \in {"idle", "close"})

\* C23 (as claimed): once the prune task has been cancelled no connection whose
\* socket the task closed is still registered or still in a subscriber set
C23_CancelledPassFinished ==
    pr.pc = "cancelled"
        => \A w \in WS : sock[w] = "closed_1000"
                => (w \notin DOMAIN hub.connections /\ w \notin Subscribers(hub))

\* a router call starts
Starts(op) == call.pc \in {"idle", "done"} /\ call' # call /\ call'.op = op

\* C24 (as claimed): send_and_wait for a platform without live adapter ends
\* with the adapter-not-loaded error, whatever its timeout
C24_UnknownPlatformNotLoaded ==
    [][(Starts("send_and_wait") /\ get_adapter(live, call'.platform) = "absent")
          => (call'.pc = "done" /\ call'.outcome = "not_loaded")]_vars

\* C24 (amended): route_outgoing, and send_and_wait with a positive timeout,
\* for a platform without live adapter raise the adapter-not-loaded error at
\* once and call no send_message; for a platform with a live adapter they call
\* its send_message once, and the call ends with what send_message returned or
\* raised (or, for send_and_wait, with the timeout).  send_and_wait with a
\* timeout that is not positive raises the timeout error and calls nothing,
\* whether the platform is loaded or not.
C24_RouteOutgoing ==
    /\ [][Starts("route_outgoing")
            => IF get_adapter(live, call'.platform) = "absent"
               THEN call'.pc = "done" /\ call'.outcome = "not_loaded" /\ call'.sends = 0
               ELSE call'.sends = 1 /\ call'.outcome \in {"none", "error"}]_vars
    /\ [][Starts("send_and_wait")
            => IF call'.timeout <= 0
               THEN call'.pc = "done" /\ call'.outcome = "timeout" /\ call'.sends = 0
               ELSE IF get_adapter(live, call'.platform) = "absent"
               THEN call'.pc = "done" /\ call'.outcome = "not_loaded" /\ call'.sends = 0
               ELSE call'.sends = 1 /\ call'.outcome \in {"none", "error"}]_vars
    /\ [][call.pc = "sending"
            => /\ call'.sends = call.sends
               /\ call'.outcome \in {"none", "id", "empty", "error", "timeout"}
               /\ call'.outcome = "timeout" => call.op = "send_and_wait"
               /\ (call'.outcome \in {"id", "empty"} /\ call.bridge = "returned")
                      => call'.outcome = call.result]_vars

\* C24 witness: with another platform loaded, send_and_wait with a positive
\* timeout for a platform that is not loaded has raised adapter-not-loaded
C24_Witness ==
    /\ call.pc = "done" /\ call.op = "send_and_wait" /\ call.timeout > 0
    /\ live # {} /\ call.platform \notin live
    /\ call.outcome = "not_loaded" /\ call.sends = 0

\* C25: a send_and_wait is never suspended past its deadline; it ends with the
\* adapter's id or error when the adapter call ends before the deadline, and
\* with the timeout error at the deadline otherwise, also when the adapter call
\* never ends; every send_and_wait ends.
C25_DeadlineKept ==
    /\ []((call.op = "send_and_wait" /\ call.pc # "idle") => call.elapsed <= call.timeout)
    /\ []((call.op = "send_and_wait" /\ call.pc = "done" /\ call.outcome = "timeout")
            => call.elapsed = call.timeout)
    /\ [][(call.op = "send_and_wait" /\ call.pc = "sending" /\ call'.pc = "done")
            => \/ call'.outcome \in {"id", "empty", "error"} /\ call.bridge \in {"returned", "http"}
               \/ call'.outcome = "timeout" /\ call.elapsed = call.timeout]_vars
    /\ ((call.op = "send_and_wait" /\ call.pc = "sending") ~> (call.pc = "done"))

\* C25 witness: send_and_wait into the QQ adapter whose loop runs nothing any
\* more has ended with the timeout at its deadline, the send still queued
C25_Witness ==
    /\ call.pc = "done" /\ call.op = "send_and_wait" /\ call.outcome = "timeout"
    /\ call.timeout > 0 /\ call.elapsed = call.timeout
    /\ call.bridge = "queued" /\ inst["qq"].thread = "stuck"

\* C26 (as claimed): a router call that has ended has raised an error or
\* returned the id of a message
C26_IdOrError == call.pc = "done" => call.outcome # "empty"

\* C27 (as claimed): every router call that is waiting for an adapter ends
C27_BridgeCallCompletes == (call.pc = "sending") ~> (call.pc = "done")

\* C28 (as claimed): the broadcast for an inbound message is created on the
\* hub's loop
C28_BroadcastOnHubLoop == inbound.platform # "none" => inbound.loop = "hub"

\* C29 (as claimed): every platform in the live set has its client made by
\* initialize() with credentials the platform accepts, so that
\* loaded_platforms_count counts such adapters only
C29_LoadedMeansInitialized ==
    /\ \A p \in live : inst[p].client /\ inst[p].creds = "good"
    /\ loaded_platforms_count(live) =
            Cardinality({p \in live : inst[p].client /\ inst[p].creds = "good"})

\* C30 (as claimed): no inbound message reaches the handler of an adapter
\* whose shutdown() has returned
C30_NoInboundAfterShutdown == ~inbound.shut

\* C38: for every state of the hub and every named channel c,
\* get_subscribers_count(c) is the number of connections broadcast(event, c)
\* would call send_json for, connections subscribed to "*" included.
C38_CountMatchesBroadcast ==
    \A c \in BroadcastChannels \ {Wildcard} :
        get_subscribers_count(hub, c) = Cardinality(Targets(hub, c))

\* C36: handle_auth accepts a token only if set_valid_tokens supplied it from
\* the loaded configuration: whatever the configuration (auth.token "" or left
\* out included), no connection becomes authenticated while the placeholder
\* the manager is constructed with is a valid token.  (No document gives the
\* placeholder as auth.token, and a valid set that holds it holds nothing else,
\* so a connection authenticated then was authenticated with the placeholder.)
C36_NoBuiltInToken ==
    [][\A w \in WS :
          (~Authenticated(hub, w) /\ Authenticated(hub', w)) => DefaultToken \notin hub.valid_tokens]_vars

\* C37: in every state each authenticated connection was authenticated with a
\* token of the current valid-token set: once set_valid_tokens has removed a
\* token, the connections authenticated with it are no longer authenticated.
C37_AuthenticatedTokenValid ==
    \A w \in WS : Authenticated(hub, w) => authtok[w] \in hub.valid_tokens

\* C35: prune_stale_connections never disconnects a connection whose
\* last_seen, at the moment it is disconnected, is within the timeout of the
\* pass: a connection found stale by the scan that receives a frame while the
\* pass is suspended closing another socket is retained.
C35_RemovedStillStale ==
    [][PruneResumeObs
         => \A w \in DOMAIN hub.connections \ DOMAIN hub'.connections :
               now - hub.connections[w].last_seen > reap.timeout]_vars

\* connection w is registered and has sent no frame for longer than any timeout
Silent(w) ==
    w \in DOMAIN hub.connections /\ now - hub.connections[w].last_seen > MaxTimeout

\* C34: with the prune task running and scheduled fairly, a registered
\* connection that has stopped sending frames for longer than the timeout is
\* eventually removed from the registry with all its subscriptions, its socket
\* closed, unless it is heard from again; and the prune task removes no
\* connection that has sent a frame within the timeout: a pass selects only
\* connections silent for longer than its timeout at the scan, and removes
\* only connections it selected.
C34_SilentEventuallyPruned ==
    /\ \A w \in WS :
          Silent(w) ~> \/ /\ w \notin DOMAIN hub.connections
                          /\ user_id(w) \notin DOMAIN hub.subscriptions
                          /\ w \notin Subscribers(hub)
                          /\ sock[w] # "open"
                       \/ (w \in DOMAIN hub.connections /\ ~Silent(w))
    /\ [][\A t \in Timeouts :
            PruneBeginObs(t)
            => \A w \in reap'.scan : now - hub.connections[w].last_seen > t]_vars
    /\ [][PruneResumeObs
            => (DOMAIN hub.connections \ DOMAIN hub'.connections) \subseteq reap.scan]_vars

\* C34 witness: a pass has closed and removed a connection that had fallen
\* silent, and a connection that sent a frame within the timeout is registered
C34_Witness ==
    /\ pr.pc = "idle"
    /\ \E w \in reap.removed : sock[w] = "closed_1000" /\ w \notin DOMAIN hub.connections
    /\ \E v \in DOMAIN hub.connections :
          /\ v \notin reap.scan
          /\ hub.connections[v].last_seen = now
          /\ now > 0

\* C31: for each adapter, whatever set_message_handler calls were made before
\* or after initialize(), an inbound message is delivered to exactly one
\* handler, the one installed by the most recent call, which is the adapter's
\* _message_handler.
C31_LatestHandlerOnly ==
    [][inbound' # inbound
         => inbound'.handlers = <<inst[inbound'.platform].handler>>]_vars

\* C31 witness: the QQ adapter was loaded by the application, which installed
\* the default handler after initialize(); the handler was replaced since, and
\* an inbound message went to the replacement
C31_Witness ==
    /\ "qq" \in live /\ inst["qq"].handler = "h2"
    /\ inbound.platform = "qq" /\ inbound.handlers = <<"h2">>

\* the platform says the event is of a one-to-one conversation
OneToOne(p, e) ==
    CASE p = "qq" -> e.kind = "user"
      [] p = "dingtalk" -> e.conversation_type = "1"
      [] p = "feishu" -> e.chat_type = "p2p"
      [] OTHER -> FALSE

\* the platform says the event is of a group conversation
InGroup(p, e) ==
    CASE p = "qq" -> e.kind \in {"group", "guild"}
      [] p = "dingtalk" -> e.conversation_type = "2"
      [] p = "feishu" -> e.chat_type = "group"
      [] OTHER -> FALSE

\* the platform's handle of the group or chat of the event
GroupHandle(p, e) ==
    CASE p = "qq" -> IF e.kind = "group" THEN e.group_openid ELSE e.channel_id
      [] p = "dingtalk" -> e.conversation_id
      [] OTHER -> e.chat_id

\* C32: in every Message an adapter hands to the handler, conversation.id is
\* sender.id when the conversation is one-to-one and the platform's group or
\* chat handle when it is a group conversation.
C32_ConversationIdRule ==
    inbound.platform # "none"
    => /\ OneToOne(inbound.platform, inbound.event)
            => inbound.message.conversation.id = inbound.message.sender.id
       /\ InGroup(inbound.platform, inbound.event)
            => inbound.message.conversation.id = GroupHandle(inbound.platform, inbound.event)

\* C33: conversation.type of every Message an adapter hands to the handler is
\* "user" or "group", never a platform's own chat type or a third kind.
C33_ConversationTypeClosed ==
    inbound.platform # "none" => inbound.message.conversation.type \in {"user", "group"}

\* the ids of the send_and_wait calls in flight
InFlight ==
    others \cup (IF call.pc = "sending" /\ call.op = "send_and_wait" THEN {call.id} ELSE {})

\* C39: the router's pending-message map holds exactly the ids of the
\* send_and_wait calls in flight, however concurrent calls interleave: the id
\* of a call that has ended (by return, adapter error, timeout or
\* cancellation) is not in it, and it is empty when no call is in flight; and
\* no two calls in flight share an id.
C39_PendingIsInFlight ==
    /\ pending = InFlight
    /\ (call.pc = "sending" /\ call.op = "send_and_wait") => call.id \notin others

\* C39 witness: a send_and_wait call has been cancelled while another was in
\* flight, and only the id of the other is in the map
C39_Witness ==
    /\ call.op = "send_and_wait" /\ call.pc = "done" /\ call.outcome = "cancelled"
    /\ others # {} /\ pending = others /\ call.id \notin pending

\* C40: the id a successful send_message returns identifies the message: two
\* sends of the same adapter, to the same recipient or not, in the same second
\* or not, never return the same id, and the id is never the recipient's id.
C40_SentIdsDistinct ==
    /\ \A i, j \in 1..Len(sent) :
          (i # j /\ sent[i].platform = sent[j].platform) => sent[i].id # sent[j].id
    /\ \A i \in 1..Len(sent) : sent[i].id # sent[i].to

====
